---- MODULE Spec2Model ----
(***************************************************************************)
(* A model of wikifinder (Vocco/wikifinder): the template parser           *)
(* (finderwikicorpus.py), the sentence splitter, claim segmenter and query *)
(* synthesizer (claims.py), the candidate scorer (bingapi.py) and the run  *)
(* loop (runfinder.py).                                                    *)
(*                                                                         *)
(* Strings are sequences of one-character strings; Python indices are kept *)
(* 0-based wherever the source stores them (starts, ends).                 *)
(***************************************************************************)
EXTENDS Integers, Sequences, FiniteSets, TLC

(***************************************************************************)
(* Python string primitives, as the source uses them.                      *)
(***************************************************************************)
UpperSeq == <<"A","B","C","D","E","F","G","H","I","J","K","L","M",
              "N","O","P","Q","R","S","T","U","V","W","X","Y","Z">>

LowerSeq == <<"a","b","c","d","e","f","g","h","i","j","k","l","m",
              "n","o","p","q","r","s","t","u","v","w","x","y","z">>

\* unicode.lower() on one character
LowerChar(c) ==
  IF \E k \in 1..Len(UpperSeq) : UpperSeq[k] = c
  THEN LowerSeq[CHOOSE k \in 1..Len(UpperSeq) : UpperSeq[k] = c]
  ELSE c

\* str.lower()
Lower(q) == [k \in 1..Len(q) |-> LowerChar(q[k])]

\* the characters str.strip() removes
Whitespace == {" ", "\n", "\t"}

Min(a, b) == IF a < b THEN a ELSE b

\* Python q[a:b] for 0 <= a, 0 <= b
Slice(q, a, b) == SubSeq(q, a + 1, Min(b, Len(q)))

\* Python q[a:]
SliceFrom(q, a) == SubSeq(q, a + 1, Len(q))

\* whether sub occurs in q at 0-based offset k
MatchAt(q, sub, k) ==
  /\ k + Len(sub) <= Len(q)
  /\ SubSeq(q, k + 1, k + Len(sub)) = sub

\* Python `sub in q`
Contains(q, sub) == \E k \in 0..(Len(q) - Len(sub)) : MatchAt(q, sub, k)

\* Python q.find(sub) for a sub that occurs in q
FindFirst(q, sub) ==
  CHOOSE k \in 0..(Len(q) - Len(sub)) :
    /\ MatchAt(q, sub, k)
    /\ \A j \in 0..(k - 1) : ~MatchAt(q, sub, j)

\* Python q.split(sep) for a non-empty separator
RECURSIVE SplitOn(_, _)
SplitOn(q, sep) ==
  IF ~Contains(q, sep) THEN <<q>>
  ELSE LET k == FindFirst(q, sep)
       IN <<Slice(q, 0, k)>> \o SplitOn(SliceFrom(q, k + Len(sep)), sep)

\* Python sep.join(parts)
RECURSIVE Join(_, _)
Join(parts, sep) ==
  IF Len(parts) = 0 THEN <<>>
  ELSE IF Len(parts) = 1 THEN parts[1]
  ELSE parts[1] \o sep \o Join(Tail(parts), sep)

\* Python q.replace(c, "") for a one-character c
RemoveChar(q, c) == SelectSeq(q, LAMBDA ch : ch # c)

RECURSIVE LStrip(_)
LStrip(q) ==
  IF Len(q) > 0 /\ q[1] \in Whitespace THEN LStrip(Tail(q)) ELSE q

RECURSIVE RStrip(_)
RStrip(q) ==
  IF Len(q) > 0 /\ q[Len(q)] \in Whitespace
  THEN RStrip(SubSeq(q, 1, Len(q) - 1)) ELSE q

\* Python q.strip()
Strip(q) == RStrip(LStrip(q))

\* the literal "$$CNMARK$$"
CNMARK == <<"$","$","C","N","M","A","R","K","$","$">>

\* number of markers a split on the marker sees
CountMarks(q) == Len(SplitOn(q, CNMARK)) - 1

(***************************************************************************)
(* State.                                                                  *)
(***************************************************************************)
VARIABLES
  \* replace_citation_templates (finderwikicorpus.py)
  s,             \* the markup being rewritten
  set_citation,  \* the [citation-needed] identifiers
  scan_i,        \* number of characters the scan has consumed
  n_open,
  n_close,
  in_template,
  prev_c,
  starts,        \* 0-based start of every '{{' recorded
  ends,          \* 0-based end of every template closed
  tmpl_i,        \* number of templates the rewriting loop has handled
  aList,         \* the output pieces accumulated
  rewritten,     \* the returned string
  tpc,           \* "idle", "scan", "done"
  \* _split_in_sents (claims.py)
  string,        \* the text being split
  split,         \* its non-empty '.'-separated fragments
  x,             \* number of fragments the loop has handled
  sentence_part, \* the fragments of the sentence being built
  sentences,     \* the sentences found
  spc,           \* "idle", "loop", "done"
  \* Claim.get_query (claims.py)
  claim,         \* the Claim: title, text, claim_type, article_text, query
  dict_dfs,      \* the dictionary: token -> document frequency
  numpy_empty,   \* what numpy.percentile does with an empty list
  q_tokens,      \* tokens
  q_tfidfs,      \* tfidfs, normalized
  q_prequery,    \* prequery
  q_query,       \* query, the list
  q_title,       \* title_array
  q_i,           \* number of title keywords still to be handled
  qpc,           \* "idle", "tokens", "select", "order", "title", "done",
                 \* "raised"
  \* ArticleClaims.from_text (claims.py)
  article,       \* the ArticleClaims: title, text, claims
  lines,         \* the paragraphs of the text
  line_no,       \* 0-based index of the line being handled
  claim_no,      \* 0-based index of the segment being handled
  emitted_at,    \* history: <<line_no, claim_no>> of every claim appended
  fpc,           \* "idle", "loop", "done", "raised"
  \* BingResponse.__init__ and __compare_site (bingapi.py)
  claim_text,       \* self.claim_text
  response_sites,   \* self.response_sites: records of url, name, snippet
  valid_sites,      \* self.valid_sites
  requested,        \* the urls urlopen has been called with, in order
  site_i,           \* number of websites the loop of __init__ has handled
  actual_url,
  paragraphs,
  par_i,            \* number of paragraphs the loop has handled
  max_similarity,   \* a similarity, as a record (see cossim)
  similar_paragraph,
  response_tuple,   \* what __compare_site returned: None or <<url, excerpt>>
  bpc,              \* "idle", "site", "fetch", "extract", "tokenize",
                    \* "compare", "returned", "done", "raised"
  \* the run: FinderWikiCorpus.get_claims and _get_response_data
  corpus,           \* the articles of the dump, with what happens to each
  claim_list,       \* get_claims: the indices of the articles extracted
  queried,          \* history: <<article, claim>> of every query computed
  art_i,            \* 0-based index of the article being handled
  cl_i,             \* 0-based index of its claim being handled
  cand_i,           \* number of search results handled for the claim
  found_sites,      \* valid_sites of the BingResponse being built
  claims_responses,
  result,
  rpc,              \* "idle", "extract", "query", "article", "search",
                    \* "sites", "wrap", "done", "raised", "exit"
  \* the main program of runfinder.py
  config,           \* the configuration file: what every setting is
  dump,             \* the number of claims of every article of the dump
  skipsites_bound,  \* whether the name skipsites has been assigned
  skipsites,        \* the list skipsites of _get_response_data
  skip_entries,     \* the [skipsites] section of the configuration file
  started,          \* the stages of processing that have begun
  m_article,        \* 0-based index of the article searched for
  m_claim,          \* 0-based index of its claim searched for
  exit_status,      \* -1 while the program runs
  mpc               \* "idle", "general", "api_key", "citation", "quote",
                    \* "dictionary", "claims", "article", "claim", "done",
                    \* "exited", "raised"

tvars == <<s, set_citation, scan_i, n_open, n_close, in_template, prev_c,
           starts, ends, tmpl_i, aList, rewritten, tpc>>

svars == <<string, split, x, sentence_part, sentences, spc>>

qvars == <<claim, dict_dfs, numpy_empty, q_tokens, q_tfidfs, q_prequery, q_query,
           q_title, q_i, qpc>>

fvars == <<article, lines, line_no, claim_no, emitted_at, fpc>>

bvars == <<claim_text, response_sites, valid_sites, requested, site_i, actual_url,
           paragraphs, par_i, max_similarity, similar_paragraph, response_tuple, bpc>>

rvars == <<corpus, claim_list, queried, art_i, cl_i, cand_i, found_sites,
           claims_responses, result, rpc>>

mvars == <<config, dump, skipsites_bound, skipsites, skip_entries, started, m_article,
           m_claim, exit_status, mpc>>

vars == <<tvars, svars, qvars, fvars, bvars, rvars, mvars>>

\* the variables of the other components, for each component
NotTemplate == <<svars, qvars, fvars, bvars, rvars, mvars>>

NotSplit == <<tvars, qvars, fvars, bvars, rvars, mvars>>

NotQuery == <<tvars, svars, fvars, bvars, rvars, mvars>>

NotClaims == <<tvars, svars, qvars, bvars, rvars, mvars>>

NotBing == <<tvars, svars, qvars, fvars, rvars, mvars>>

NotRun == <<tvars, svars, qvars, fvars, bvars, mvars>>

NotMain == <<tvars, svars, qvars, fvars, bvars, rvars>>

\* Python None, where the source holds it in place of a string
None == <<"None">>

\* prev_c = None
NoChar == "None"

\* a component that has not been called
TemplateIdle ==
  /\ s = <<>> /\ set_citation = {} /\ scan_i = 0
  /\ n_open = 0 /\ n_close = 0 /\ in_template = FALSE /\ prev_c = NoChar
  /\ starts = <<>> /\ ends = <<>> /\ tmpl_i = 0 /\ aList = <<>>
  /\ rewritten = None /\ tpc = "idle"

SplitIdle ==
  /\ string = <<>> /\ split = <<>> /\ x = 0
  /\ sentence_part = <<>> /\ sentences = <<>> /\ spc = "idle"

\* a Claim as Claim.__init__ leaves it: query is not set
NewClaim(title, text, claim_type, article_text) ==
  [title |-> title, text |-> text, claim_type |-> claim_type,
   article_text |-> article_text, query |-> None]

QueryIdle ==
  /\ claim = NewClaim(<<>>, <<>>, "B", <<>>) /\ dict_dfs = <<>>
  /\ numpy_empty = "nan" /\ q_tokens = <<>> /\ q_tfidfs = [num |-> <<>>, den |-> 1]
  /\ q_prequery = {} /\ q_query = <<>> /\ q_title = <<>> /\ q_i = 0
  /\ qpc = "idle"

\* an ArticleClaims as ArticleClaims.__init__ leaves it
NewArticleClaims(article_title, article_text) ==
  [title |-> article_title, text |-> article_text, claims |-> <<>>]

ClaimsIdle ==
  /\ article = NewArticleClaims(<<>>, <<>>) /\ lines = <<>> /\ line_no = 0
  /\ claim_no = 0 /\ emitted_at = <<>> /\ fpc = "idle"

\* max_similarity = 0
ZeroSimilarity == [dot |-> 0, norm |-> 1]

BingIdle ==
  /\ claim_text = <<>> /\ response_sites = <<>> /\ valid_sites = <<>> /\ site_i = 0
  /\ requested = <<>>
  /\ actual_url = None /\ paragraphs = <<>> /\ par_i = 0
  /\ max_similarity = ZeroSimilarity /\ similar_paragraph = <<>>
  /\ response_tuple = None /\ bpc = "idle"

RunIdle ==
  /\ corpus = <<>> /\ claim_list = <<>> /\ queried = <<>> /\ art_i = 0 /\ cl_i = 0
  /\ cand_i = 0 /\ found_sites = <<>> /\ claims_responses = <<>> /\ result = <<>>
  /\ rpc = "idle"

MainIdle ==
  /\ config = <<>> /\ dump = <<>> /\ skipsites_bound = FALSE /\ started = {}
  /\ skipsites = <<>> /\ skip_entries = <<>>
  /\ m_article = 0 /\ m_claim = 0 /\ exit_status = -1 /\ mpc = "idle"

\* every component but those of keep has not been called
IdleBut(keep) ==
  /\ IF "template" \in keep THEN TRUE ELSE TemplateIdle
  /\ IF "split" \in keep THEN TRUE ELSE SplitIdle
  /\ IF "query" \in keep THEN TRUE ELSE QueryIdle
  /\ IF "claims" \in keep THEN TRUE ELSE ClaimsIdle
  /\ IF "bing" \in keep THEN TRUE ELSE BingIdle
  /\ IF "run" \in keep THEN TRUE ELSE RunIdle
  /\ IF "main" \in keep THEN TRUE ELSE MainIdle

(***************************************************************************)
(* finderwikicorpus.py: is_cn, is_quote, get_quote.                        *)
(***************************************************************************)
\* template.lower().split("|")[0].replace("{", "").replace("}", "").strip()
TemplateIdentifier(template) ==
  Strip(RemoveChar(RemoveChar(SplitOn(Lower(template), <<"|">>)[1], "{"), "}"))

is_cn(template, citations) == TemplateIdentifier(template) \in citations

is_quote(template, identifier) == TemplateIdentifier(template) = identifier

\* the `for part in split` loop of get_quote: the last matching part wins
RECURSIVE QuoteOfParts(_, _, _)
QuoteOfParts(parts, key, quote) ==
  IF Len(parts) = 0 THEN quote
  ELSE QuoteOfParts(Tail(parts), key,
                    IF Contains(parts[1], key)
                    THEN Strip(SplitOn(parts[1], key)[2])
                    ELSE quote)

get_quote(template, text_identifier) ==
  LET parts == SplitOn(Lower(template), <<"|">>)
      quote == QuoteOfParts(parts, text_identifier \o <<"=">>, <<>>)
  IN IF quote = <<>>
     THEN Strip(RemoveChar(Join(Tail(parts), <<>>), "}"))
     ELSE quote

\* the [quote] options of the configuration, lower-cased
QuoteIdentifier == <<"q","u","o","t","e">>

TextIdentifier == <<"t","e","x","t">>

(***************************************************************************)
(* finderwikicorpus.py: replace_citation_templates, the scan.              *)
(***************************************************************************)
ScanStart ==
  [i |-> 0, n_open |-> 0, n_close |-> 0, in_template |-> FALSE,
   prev_c |-> NoChar, starts |-> <<>>, ends |-> <<>>]

\* ScanStep without `n_open, n_close = 0, 0` when a template closes
ScanStepNoReset(st, c) ==
  LET i == st.i
      opened == IF ~st.in_template /\ c = "{" /\ c = st.prev_c
                THEN [st EXCEPT !.starts = Append(@, i - 1),
                                !.in_template = TRUE,
                                !.n_open = 1]
                ELSE st
      counted == IF ~opened.in_template THEN opened
                 ELSE IF c = "{" THEN [opened EXCEPT !.n_open = @ + 1]
                 ELSE IF c = "}" THEN [opened EXCEPT !.n_close = @ + 1]
                 ELSE opened
      closed == IF counted.in_template /\ counted.n_open = counted.n_close
                THEN [counted EXCEPT !.ends = Append(@, i),
                                     !.in_template = FALSE]
                ELSE counted
  IN [closed EXCEPT !.prev_c = c, !.i = i + 1]

\* ScanStep opening a template at a single '{' (no `c == prev_c`)
ScanStepSingleBrace(st, c) ==
  LET i == st.i
      opened == IF ~st.in_template /\ c = "{"
                THEN [st EXCEPT !.starts = Append(@, i - 1),
                                !.in_template = TRUE,
                                !.n_open = 1]
                ELSE st
      counted == IF ~opened.in_template THEN opened
                 ELSE IF c = "{" THEN [opened EXCEPT !.n_open = @ + 1]
                 ELSE IF c = "}" THEN [opened EXCEPT !.n_close = @ + 1]
                 ELSE opened
      closed == IF counted.in_template /\ counted.n_open = counted.n_close
                THEN [counted EXCEPT !.ends = Append(@, i),
                                     !.in_template = FALSE,
                                     !.n_open = 0,
                                     !.n_close = 0]
                ELSE counted
  IN [closed EXCEPT !.prev_c = c, !.i = i + 1]

\* one iteration of `for i, c in enumerate(iter(s))`
ScanStep(st, c) ==
  LET i == st.i
      opened == IF ~st.in_template /\ c = "{" /\ c = st.prev_c
                THEN [st EXCEPT !.starts = Append(@, i - 1),
                                !.in_template = TRUE,
                                !.n_open = 1]
                ELSE st
      counted == IF ~opened.in_template THEN opened
                 ELSE IF c = "{" THEN [opened EXCEPT !.n_open = @ + 1]
                 ELSE IF c = "}" THEN [opened EXCEPT !.n_close = @ + 1]
                 ELSE opened
      closed == IF counted.in_template /\ counted.n_open = counted.n_close
                THEN [counted EXCEPT !.ends = Append(@, i),
                                     !.in_template = FALSE,
                                     !.n_open = 0,
                                     !.n_close = 0]
                ELSE counted
  IN [closed EXCEPT !.prev_c = c, !.i = i + 1]

\* the scanning loop from state st to the end of q
RECURSIVE ScanFrom(_, _)
ScanFrom(st, q) ==
  IF st.i >= Len(q) THEN st ELSE ScanFrom(ScanStep(st, q[st.i + 1]), q)

\* s[start:end+1] of the k-th pair of zip(starts, ends), k = 1..Len(ens)
TemplateAt(q, sts, ens, k) == Slice(q, sts[k], ens[k] + 1)

\* [s[end + 1:start] for start, end in zip(starts + [None], [-1] + ends)][k-1]
SegmentAt(q, sts, ens, k) ==
  LET from == IF k = 1 THEN 0 ELSE ens[k - 1] + 1
  IN IF k <= Len(sts) THEN Slice(q, from, sts[k]) ELSE SliceFrom(q, from)

\* re.match("\n+", piece)
MatchesNewlines(piece) == Len(piece) > 0 /\ piece[1] = "\n"

\* while len(aList) != 0 and re.match(pattern, aList[-1]): del aList[-1]
RECURSIVE DropNewlinePieces(_)
DropNewlinePieces(pieces) ==
  IF Len(pieces) # 0 /\ MatchesNewlines(pieces[Len(pieces)])
  THEN DropNewlinePieces(SubSeq(pieces, 1, Len(pieces) - 1))
  ELSE pieces

\* RewriteStep emitting the marker without the literal text before it
RewriteStepNoText(pieces, q, sts, ens, k, citations) ==
  LET template == TemplateAt(q, sts, ens, k)
      withText == Append(pieces, SegmentAt(q, sts, ens, k))
  IN IF is_cn(template, citations) THEN Append(pieces, CNMARK)
     ELSE IF is_quote(template, QuoteIdentifier)
     THEN DropNewlinePieces(withText)
            \o <<<<"\n">>, get_quote(template, TextIdentifier)>>
     ELSE withText

\* one iteration of the rewriting loop, for the k-th template
RewriteStep(pieces, q, sts, ens, k, citations) ==
  LET template == TemplateAt(q, sts, ens, k)
      withText == Append(pieces, SegmentAt(q, sts, ens, k))
  IN IF is_cn(template, citations) THEN Append(withText, CNMARK)
     ELSE IF is_quote(template, QuoteIdentifier)
     THEN DropNewlinePieces(withText)
            \o <<<<"\n">>, get_quote(template, TextIdentifier)>>
     ELSE withText

RECURSIVE RewriteFrom(_, _, _, _, _, _)
RewriteFrom(pieces, q, sts, ens, k, citations) ==
  IF k > Len(ens) THEN pieces
  ELSE RewriteFrom(RewriteStep(pieces, q, sts, ens, k, citations),
                   q, sts, ens, k + 1, citations)

\* ReturnValue without the text after the last template
ReturnValueNoTail(pieces, q, sts, ens) ==
  IF Len(pieces) = 0
  THEN Join([k \in 1..(Len(ens) + 1) |-> SegmentAt(q, sts, ens, k)], <<>>)
  ELSE Join(pieces, <<>>)

\* ReturnValue with the text after the last closed template in every case
ReturnValueWholeTail(pieces, q, sts, ens) ==
  LET from == IF Len(ens) = 0 THEN 0 ELSE ens[Len(ens)] + 1
      segments == [k \in 1..Len(ens) |-> SegmentAt(q, sts, ens, k)]
  IN IF Len(pieces) = 0
     THEN Join(Append(segments, SliceFrom(q, from)), <<>>)
     ELSE Join(Append(pieces, SliceFrom(q, from)), <<>>)

\* the two return statements
ReturnValue(pieces, q, sts, ens) ==
  IF Len(pieces) = 0
  THEN Join([k \in 1..(Len(ens) + 1) |-> SegmentAt(q, sts, ens, k)], <<>>)
  ELSE Join(Append(pieces, SegmentAt(q, sts, ens, Len(ens) + 1)), <<>>)

\* replace_citation_templates as a function of its arguments
replace_citation_templates(q, citations) ==
  LET st == ScanFrom(ScanStart, q)
  IN ReturnValue(RewriteFrom(<<>>, q, st.starts, st.ends, 1, citations),
                 q, st.starts, st.ends)


(***************************************************************************)
(* replace_citation_templates: inputs, and the function as a process.      *)
(***************************************************************************)
\* longest markup enumerated exhaustively
MaxMarkupLen == 6

BraceAlphabet == {"{", "}", "c", "x"}

BraceStrings == UNION {[1..n -> BraceAlphabet] : n \in 0..MaxMarkupLen}

\* 'x {{cn}} y'
ExCn == <<"x"," ","{","{","c","n","}","}"," ","y">>

\* '{{a{{b}}c}}x{{d}}'
ExNested == <<"{","{","a","{","{","b","}","}","c","}","}","x","{","{","d","}","}">>

\* 'a{{Cn|date=May}}b{{fact}}'
ExUpper == <<"a","{","{","C","n","|","d","a","t","e","=","M","a","y","}","}",
             "b","{","{","f","a","c","t","}","}">>

\* '$$CNMARK${{cn}}CNMARK$$'
ExSplitMark == <<"$","$","C","N","M","A","R","K","$","{","{","c","n","}","}",
                 "C","N","M","A","R","K","$","$">>

\* 'a\n{{Quote|text=Hi}}b'
ExQuote == <<"a","\n","{","{","Q","u","o","t","e","|","t","e","x","t","=",
             "H","i","}","}","b">>

\* '{{quote|$$}}CNMARK$$'
ExQuoteMark == <<"{","{","q","u","o","t","e","|","$","$","}","}",
                 "C","N","M","A","R","K","$","$">>

\* 'a{{cn}}b{{x{{cn}}'
ExUnbalanced == <<"a","{","{","c","n","}","}","b","{","{","x","{","{","c","n","}","}">>

\* 'say:$$CNMARK$${{cn}}'
ExLiteralMark == <<"s","a","y",":","$","$","C","N","M","A","R","K","$","$",
                   "{","{","c","n","}","}">>

\* 'a{{x}}b{{cn}}c'
ExMixed == <<"a","{","{","x","}","}","b","{","{","c","n","}","}","c">>

\* '\nb{{quote|hi}}'
ExQuoteLosesText == <<"\n","b","{","{","q","u","o","t","e","|","h","i","}","}">>

\* '{{quote|a|b{{c}}d}}'
ExQuotePipes == <<"{","{","q","u","o","t","e","|","a","|","b","{","{","c","}","}","d","}","}">>

MarkupExamples ==
  {ExCn, ExNested, ExUpper, ExSplitMark, ExQuote, ExQuoteMark, ExUnbalanced,
   ExLiteralMark, ExMixed, ExQuoteLosesText, ExQuotePipes}

MarkupInputs == BraceStrings \cup MarkupExamples

\* the lower-cased keys of [citation-needed] with value 'true'
CitationSets == {{<<"c","n">>}, {<<"c">>, <<"c","n">>, <<"f","a","c","t">>}}

\* the call replace_citation_templates(s, set_citation, ...)
TemplateInit ==
  /\ IdleBut({"template"})
  /\ s \in MarkupInputs
  /\ set_citation \in CitationSets
  /\ scan_i = ScanStart.i
  /\ n_open = ScanStart.n_open /\ n_close = ScanStart.n_close
  /\ in_template = ScanStart.in_template /\ prev_c = ScanStart.prev_c
  /\ starts = ScanStart.starts /\ ends = ScanStart.ends
  /\ tmpl_i = 0 /\ aList = <<>>
  /\ rewritten = None /\ tpc = "scan"

ScanVars ==
  [i |-> scan_i, n_open |-> n_open, n_close |-> n_close, in_template |-> in_template,
   prev_c |-> prev_c, starts |-> starts, ends |-> ends]

\* the body of the scanning loop, for the character at index scan_i
ScanChar ==
  /\ tpc = "scan"
  /\ scan_i < Len(s)
  /\ LET st == ScanStep(ScanVars, s[scan_i + 1])
     IN /\ n_open' = st.n_open /\ n_close' = st.n_close
        /\ in_template' = st.in_template /\ prev_c' = st.prev_c
        /\ starts' = st.starts /\ ends' = st.ends
        /\ scan_i' = st.i
  /\ UNCHANGED <<s, set_citation, tmpl_i, aList, rewritten, tpc>>
  /\ UNCHANGED NotTemplate

\* the body of the rewriting loop, for the next template of zip(starts, ends)
RewriteTemplate ==
  /\ tpc = "scan"
  /\ scan_i = Len(s)
  /\ tmpl_i < Len(ends)
  /\ aList' = RewriteStep(aList, s, starts, ends, tmpl_i + 1, set_citation)
  /\ tmpl_i' = tmpl_i + 1
  /\ UNCHANGED <<s, set_citation, scan_i, n_open, n_close, in_template,
                 prev_c, starts, ends, rewritten, tpc>>
  /\ UNCHANGED NotTemplate

\* the return
ReturnRewritten ==
  /\ tpc = "scan"
  /\ scan_i = Len(s)
  /\ tmpl_i = Len(ends)
  /\ rewritten' = ReturnValue(aList, s, starts, ends)
  /\ tpc' = "done"
  /\ UNCHANGED <<s, set_citation, scan_i, n_open, n_close, in_template,
                 prev_c, starts, ends, tmpl_i, aList>>
  /\ UNCHANGED NotTemplate

TemplateNext == ScanChar \/ RewriteTemplate \/ ReturnRewritten


(***************************************************************************)
(* claims.py: _split_in_sents.                                             *)
(***************************************************************************)
\* filter(lambda x: x != '', parts)
NonEmpty(parts) == SelectSeq(parts, LAMBDA part : part # <<>>)

\* filter(lambda x: x != '', string.split("."))
Fragments(str) == NonEmpty(SplitOn(str, <<".">>))

\* filter(lambda z: z != '', part_next.split(" "))
WordsOf(part) == NonEmpty(SplitOn(part, <<" ">>))

\* part.split(" ")[-1]
LastPiece(part) == LET pieces == SplitOn(part, <<" ">>) IN pieces[Len(pieces)]

\* the condition of the `elif`: the '.' before part_next is not an end
NotAnEnd(last_part, part_next) ==
  LET aList1 == WordsOf(part_next)
  IN \/ Len(aList1) = 1
     \/ Lower(aList1[1]) = aList1[1]
     \/ /\ Lower(LastPiece(last_part)) # LastPiece(last_part)
        /\ Len(last_part) < 5

SplitStart == [x |-> 0, sentence_part |-> <<>>, sentences |-> <<>>, done |-> FALSE]

\* SplitStep starting the sentence anew at a '.' that is not an end
SplitStepForgetful(st, frags) ==
  LET elem == frags[st.x + 1]
      part == Append(st.sentence_part, elem)
      flushed == Append(st.sentences, Join(part, <<".">>))
  IN IF st.x + 1 = Len(frags)
     THEN [x |-> st.x + 1, sentence_part |-> part, sentences |-> flushed,
           done |-> TRUE]
     ELSE IF Len(WordsOf(frags[st.x + 2])) < 1
     THEN [x |-> st.x + 1, sentence_part |-> <<>>, sentences |-> flushed,
           done |-> FALSE]
     ELSE IF NotAnEnd(elem, frags[st.x + 2])
     THEN [x |-> st.x + 1, sentence_part |-> <<elem>>, sentences |-> st.sentences,
           done |-> FALSE]
     ELSE [x |-> st.x + 1, sentence_part |-> <<>>, sentences |-> flushed,
           done |-> FALSE]

\* one iteration of `for x, elem in enumerate(split)`
SplitStep(st, frags) ==
  LET elem == frags[st.x + 1]
      part == Append(st.sentence_part, elem)
      flushed == Append(st.sentences, Join(part, <<".">>))
  IN IF st.x + 1 = Len(frags)
     THEN [x |-> st.x + 1, sentence_part |-> part, sentences |-> flushed,
           done |-> TRUE]
     ELSE IF Len(WordsOf(frags[st.x + 2])) < 1
     THEN [x |-> st.x + 1, sentence_part |-> <<>>, sentences |-> flushed,
           done |-> FALSE]
     ELSE IF NotAnEnd(elem, frags[st.x + 2])
     THEN [x |-> st.x + 1, sentence_part |-> part, sentences |-> st.sentences,
           done |-> FALSE]
     ELSE [x |-> st.x + 1, sentence_part |-> <<>>, sentences |-> flushed,
           done |-> FALSE]

RECURSIVE SplitFrom(_, _)
SplitFrom(st, frags) ==
  IF st.done \/ st.x >= Len(frags) THEN st ELSE SplitFrom(SplitStep(st, frags), frags)

\* _split_in_sents as a function of its argument
split_in_sents(str) == SplitFrom(SplitStart, Fragments(str)).sentences

(***************************************************************************)
(* _split_in_sents: inputs, and the function as a process.                 *)
(***************************************************************************)
\* longest text enumerated exhaustively
MaxTextLen == 6

TextAlphabet == {".", " ", "a", "A"}

TextStrings == UNION {[1..n -> TextAlphabet] : n \in 0..MaxTextLen}

\* 'Dr. Smith went home.'
ExDoctor == <<"D","r","."," ","S","m","i","t","h"," ","w","e","n","t"," ",
              "h","o","m","e",".">>

\* 'He left. She stayed.'
ExTwo == <<"H","e"," ","l","e","f","t","."," ","S","h","e"," ",
           "s","t","a","y","e","d",".">>

\* 'I met Dr. Smith went home.'
ExMidDoctor == <<"I"," ","m","e","t"," ","D","r","."," ","S","m","i","t","h"," ",
                 "w","e","n","t"," ","h","o","m","e",".">>

TextExamples == {ExDoctor, ExTwo, ExMidDoctor}

TextInputs == TextStrings \cup TextExamples

\* the call _split_in_sents(string), up to the loop
SplitInit ==
  /\ IdleBut({"split"})
  /\ string \in TextInputs
  /\ split = Fragments(string)
  /\ x = SplitStart.x
  /\ sentence_part = SplitStart.sentence_part
  /\ sentences = SplitStart.sentences
  /\ spc = "loop"

\* the body of the loop, for the fragment at index x
SplitFragment ==
  /\ spc = "loop"
  /\ x < Len(split)
  /\ LET st == SplitStep([x |-> x, sentence_part |-> sentence_part,
                          sentences |-> sentences, done |-> FALSE], split)
     IN /\ x' = st.x
        /\ sentence_part' = st.sentence_part
        /\ sentences' = st.sentences
        /\ spc' = IF st.done THEN "done" ELSE "loop"
  /\ UNCHANGED <<string, split>>
  /\ UNCHANGED NotSplit

\* the return when split is empty
ReturnNoSentences ==
  /\ spc = "loop"
  /\ Len(split) = 0
  /\ spc' = "done"
  /\ UNCHANGED <<string, split, x, sentence_part, sentences>>
  /\ UNCHANGED NotSplit

SplitNext == SplitFragment \/ ReturnNoSentences


(***************************************************************************)
(* claims.py: Claim.get_query, its text primitives.  A unicode string is a *)
(* sequence of characters, "c9" and "e9" standing for U+00C9 and U+00E9; a *)
(* byte string is a sequence of bytes, "xc3", "x89" and "xa9" standing for *)
(* the bytes of their UTF-8 encodings.                                     *)
(***************************************************************************)
UpperE == "c9"

LowerE == "e9"

LeadByte == "xc3"

UpperETail == "x89"

LowerETail == "xa9"

\* unicode.lower()
UnicodeLower(u) ==
  [k \in 1..Len(u) |-> IF u[k] = UpperE THEN LowerE ELSE LowerChar(u[k])]

\* unicode.encode("utf-8")
RECURSIVE Utf8Encode(_)
Utf8Encode(u) ==
  IF u = <<>> THEN <<>>
  ELSE (IF Head(u) = UpperE THEN <<LeadByte, UpperETail>>
        ELSE IF Head(u) = LowerE THEN <<LeadByte, LowerETail>>
        ELSE <<Head(u)>>) \o Utf8Encode(Tail(u))

\* unicode(b, "utf-8"), for the byte strings Utf8Encode produces
RECURSIVE Utf8Decode(_)
Utf8Decode(b) ==
  IF b = <<>> THEN <<>>
  ELSE IF Head(b) = LeadByte /\ Len(b) > 1
       THEN <<IF b[2] = UpperETail THEN UpperE ELSE LowerE>>
            \o Utf8Decode(Tail(Tail(b)))
       ELSE <<Head(b)>> \o Utf8Decode(Tail(b))

IsAscii(b) == \A k \in 1..Len(b) : b[k] \notin {LeadByte, UpperETail, LowerETail}

\* u == b in Python 2 for a unicode u and a byte string b: b is decoded as
\* ASCII, and when that fails the two compare unequal
UnicodeEqualsStr(u, b) == IsAscii(b) /\ u = b

\* u in tokens, for a unicode u and a list of byte strings
UnicodeInStrs(u, strs) == \E k \in 1..Len(strs) : UnicodeEqualsStr(u, strs[k])

\* tokens.index(u)
UnicodeIndex(u, strs) ==
  CHOOSE k \in 1..Len(strs) :
    /\ UnicodeEqualsStr(u, strs[k])
    /\ \A j \in 1..(k - 1) : ~UnicodeEqualsStr(u, strs[j])

\* the characters of a token of gensim.utils.tokenize: word characters that
\* are not digits
Alphabetic ==
  {UpperSeq[k] : k \in 1..Len(UpperSeq)} \cup {LowerSeq[k] : k \in 1..Len(LowerSeq)}
    \cup {UpperE, LowerE, "_"}

\* the 1-based positions at which a maximal run of alphabetic characters
\* starts
WordStarts(text) ==
  {k \in 1..Len(text) :
     text[k] \in Alphabetic /\ (k = 1 \/ text[k - 1] \notin Alphabetic)}

\* the position at which the run that starts at k ends
WordEnd(text, k) ==
  CHOOSE j \in k..Len(text) :
    /\ j = Len(text) \/ text[j + 1] \notin Alphabetic
    /\ \A i \in k..j : text[i] \in Alphabetic

\* gensim.utils.tokenize(text): the maximal runs of alphabetic characters, in
\* the order of their positions
tokenize(text) ==
  LET word_starts == WordStarts(text)
      Nth(n) == CHOOSE k \in word_starts :
                  Cardinality({j \in word_starts : j < k}) = n - 1
  IN [n \in 1..Cardinality(word_starts) |->
        SubSeq(text, Nth(n), WordEnd(text, Nth(n)))]

(***************************************************************************)
(* claims.py: Claim.__get_tokens_with_tfs, __get_idfs, __normalize.        *)
(* Weights are held in thousandths and logarithms to base 15 in hundredths. *)
(* A list of numbers is a record of integer numerators num and their       *)
(* common denominator den, so that normalizing loses nothing.              *)
(***************************************************************************)
\* the weight 1 of a token of the closest sentence, in thousandths
WeightOne == 1000

\* COEFFICIENT = 0.6, in tenths
COEFFICIENT == 6

\* the weight 0.7 of an introduction token, in thousandths
WeightIntro == 700

\* 1 * (COEFFICIENT ** i), in thousandths, for i = 2, 3
CoefficientPower(i) ==
  IF i = 2 THEN COEFFICIENT * COEFFICIENT * 10
  ELSE COEFFICIENT * COEFFICIENT * COEFFICIENT

\* math.log(n, 15.0) in hundredths, for n = 14, 15, ..., 34
Log15 ==
  <<97, 100, 102, 105, 107, 109, 111, 112, 114, 116, 117, 119, 120, 122, 123,
    124, 126, 127, 128, 129, 130>>

\* sentences[-i]
FromEnd(sents, i) == sents[Len(sents) - i + 1]

\* the body of the loop over the tokens of sents[-i]
WeighToken(st, token, i) ==
  LET tok == UnicodeLower(token)
  IN IF UnicodeInStrs(tok, st.tokens)
     THEN IF i # 1
          THEN [st EXCEPT !.token_weights[UnicodeIndex(tok, st.tokens)] =
                            @ + CoefficientPower(i)]
          ELSE st
     ELSE [tokens |-> Append(st.tokens, Utf8Encode(tok)),
           token_tfs |-> Append(st.token_tfs, 0),
           token_weights |-> Append(st.token_weights,
                                    IF i # 1 THEN CoefficientPower(i) ELSE WeightOne)]

RECURSIVE WeighTokens(_, _, _)
WeighTokens(st, words, i) ==
  IF words = <<>> THEN st
  ELSE WeighTokens(WeighToken(st, Head(words), i), Tail(words), i)

\* while i < 4, with its break at the first sentence
RECURSIVE WeighSentences(_, _, _)
WeighSentences(st, sents, i) ==
  IF i >= 4 THEN st
  ELSE LET weighed == WeighTokens(st, tokenize(FromEnd(sents, i)), i)
       IN IF FromEnd(sents, i) = sents[1] THEN weighed
          ELSE WeighSentences(weighed, sents, i + 1)

\* the body of the loop over the tokens of the introduction, sentences[0]
IntroToken(st, token) ==
  LET tok == UnicodeLower(token)
  IN IF ~UnicodeInStrs(tok, st.tokens)
     THEN [tokens |-> Append(st.tokens, Utf8Encode(tok)),
           token_tfs |-> Append(st.token_tfs, 0),
           token_weights |-> Append(st.token_weights, WeightIntro)]
     ELSE st

RECURSIVE IntroTokens(_, _)
IntroTokens(st, words) ==
  IF words = <<>> THEN st ELSE IntroTokens(IntroToken(st, Head(words)), Tail(words))

\* the body of the loop over the words of the article: the first token equal
\* to the word is counted
CountWord(st, word) ==
  LET w == UnicodeLower(word)
      hits == {k \in 1..Len(st.tokens) : UnicodeLower(Utf8Decode(st.tokens[k])) = w}
  IN IF hits = {} THEN st
     ELSE LET first == CHOOSE k \in hits : \A j \in hits : k <= j
          IN [st EXCEPT !.token_tfs[first] = @ + 1]

RECURSIVE CountWords(_, _)
CountWords(st, words) ==
  IF words = <<>> THEN st ELSE CountWords(CountWord(st, Head(words)), Tail(words))

RECURSIVE Sum(_)
Sum(list) == IF list = <<>> THEN 0 ELSE Head(list) + Sum(Tail(list))

\* Claim.__normalize: elem / list_sum is elem.num / Sum(num)
normalize(list_to_normalize) ==
  LET list_sum == Sum(list_to_normalize.num)
  IN IF list_sum = 0 THEN list_to_normalize
     ELSE [num |-> list_to_normalize.num, den |-> list_sum]

\* Claim.__get_tokens_with_tfs; sentences[-1] of no sentences raises IndexError
get_tokens_with_tfs(sents, text, claim_type) ==
  IF sents = <<>>
  THEN [raised |-> TRUE, tokens |-> <<>>, token_tfs |-> [num |-> <<>>, den |-> 1]]
  ELSE
    LET start == [tokens |-> <<>>, token_weights |-> <<>>, token_tfs |-> <<>>]
        weighed == WeighSentences(start, sents, 1)
        intro == IF claim_type = "F" /\ Len(sents) > 3
                 THEN IntroTokens(weighed, tokenize(sents[1]))
                 ELSE weighed
        counted == CountWords(intro, tokenize(text))
        weighted == [k \in 1..Len(counted.tokens) |->
                       Log15[counted.token_tfs[k] + 1] * counted.token_weights[k]]
    IN [raised |-> FALSE, tokens |-> counted.tokens,
        token_tfs |-> normalize([num |-> weighted, den |-> 100000])]

\* math.log(n, 2.0), for the powers of two
RECURSIVE Log2(_)
Log2(n) == IF n <= 1 THEN 0 ELSE 1 + Log2(n \div 2)

\* Claim.__get_idfs with a failed lookup counted as a token of every document
get_idfs_default_one(tokens, dictionary, num_documents) ==
  [k \in 1..Len(tokens) |->
     LET uni == Utf8Decode(tokens[k])
     IN IF uni \in DOMAIN dictionary /\ dictionary[uni] # 0
        THEN Log2(num_documents \div dictionary[uni])
        ELSE 1]

\* Claim.__get_idfs: a dictionary is a function from its tokens to their
\* document frequencies; a failed lookup or division gives 0
get_idfs(tokens, dictionary, num_documents) ==
  [k \in 1..Len(tokens) |->
     LET uni == Utf8Decode(tokens[k])
     IN IF uni \in DOMAIN dictionary /\ dictionary[uni] # 0
        THEN Log2(num_documents \div dictionary[uni])
        ELSE 0]

(***************************************************************************)
(* claims.py: numpy.percentile, Claim.__get_cutoff, __get_tag,             *)
(* __get_strategy, __lower_by_max.  A percentile is held in hundredths of  *)
(* the numerators of its values.                                           *)
(***************************************************************************)
\* list.sort(), ascending
RECURSIVE Insert(_, _)
Insert(v, sorted) ==
  IF sorted = <<>> THEN <<v>>
  ELSE IF v <= Head(sorted) THEN <<v>> \o sorted
  ELSE <<Head(sorted)>> \o Insert(v, Tail(sorted))

RECURSIVE Sorted(_)
Sorted(list) == IF list = <<>> THEN <<>> ELSE Insert(Head(list), Sorted(Tail(list)))

\* numpy.percentile(a, q) of the non-empty numerators a, with linear
\* interpolation between the two nearest ranks, in hundredths
percentile(a, q) ==
  LET sorted == Sorted(a)
      pos == q * (Len(a) - 1)
      lo == pos \div 100
      rest == pos % 100
  IN IF rest = 0 THEN 100 * sorted[lo + 1]
     ELSE 100 * sorted[lo + 1] + rest * (sorted[lo + 2] - sorted[lo + 1])

TAGS == <<"very_large", "large", "medium_large", "medium", "medium_small",
          "small", "very_small">>

\* Claim.__get_tag of the value num / den, against 0.85, 0.7, 0.6, 0.4, 0.3
\* and 0.15; every comparison with the nan of 0 / 0.0 is false
get_tag(num, den) ==
  IF den = 0 THEN TAGS[7]
  ELSE IF 20 * num > 17 * den THEN TAGS[1]
  ELSE IF 10 * num > 7 * den THEN TAGS[2]
  ELSE IF 5 * num > 3 * den THEN TAGS[3]
  ELSE IF 5 * num > 2 * den THEN TAGS[4]
  ELSE IF 10 * num > 3 * den THEN TAGS[5]
  ELSE IF 20 * num > 3 * den THEN TAGS[6]
  ELSE TAGS[7]

\* Claim.__lower_by_max
RECURSIVE lower_by_max(_, _, _)
lower_by_max(breaking_point, maximum, change) ==
  IF maximum >= 0
  THEN IF breaking_point - maximum >= 0 THEN breaking_point - maximum
       ELSE lower_by_max(breaking_point, maximum - change, change)
  ELSE breaking_point

\* the value the loops of __get_strategy assign to strategy
Strategy(spread, breaking_point, break_rate) ==
  LET coeff == <<6, 5, 4, 4, 4, 3, 2>>
      rates == <<3, 3, 2, 2, 2, 1, 1>>
      i == CHOOSE k \in 1..7 : TAGS[k] = spread
      j == CHOOSE k \in 1..7 : TAGS[k] = break_rate
  IN lower_by_max(breaking_point, coeff[i] * j, rates[i])

\* Claim.__get_strategy returning the lowered value
get_strategy_lowered(spread, breaking_point, break_rate) ==
  Strategy(spread, breaking_point, break_rate)

\* Claim.__get_strategy: strategy is computed and breaking_point returned
get_strategy(spread, breaking_point, break_rate) ==
  LET strategy == Strategy(spread, breaking_point, break_rate)
  IN breaking_point

\* the body of the loop of __get_cutoff, for perc_value
CutoffStep(st, tfidfs) ==
  LET diff == percentile(tfidfs.num, st.perc_value + 10)
              - percentile(tfidfs.num, st.perc_value)
  IN [perc_value |-> st.perc_value - 10,
      cumulative |-> st.cumulative + diff,
      cur_max |-> IF diff > st.cur_max THEN diff ELSE st.cur_max,
      position |-> IF diff > st.cur_max THEN st.perc_value ELSE st.position]

RECURSIVE CutoffFrom(_, _)
CutoffFrom(st, tfidfs) ==
  IF st.perc_value >= 0 THEN CutoffFrom(CutoffStep(st, tfidfs), tfidfs) ELSE st

\* Claim.__get_cutoff of a non-empty list
get_cutoff(tfidfs) ==
  LET st == CutoffFrom([perc_value |-> 90, cumulative |-> 0, cur_max |-> 0,
                        position |-> 0], tfidfs)
      spread == get_tag(st.cumulative \div 100, tfidfs.den)
      break_rate == get_tag(st.cur_max, st.cumulative)
  IN get_strategy(spread, st.position, break_rate)

(***************************************************************************)
(* claims.py: Claim.get_query, the selection and ordering of the keywords. *)
(***************************************************************************)
\* len(prequery) >= 10
PrequeryLimit == 10

\* len(query) > 8
QueryLimit == 8

\* query[:7]
QueryKept == 7

\* tfidfs[x] = token_tfs[x] * token_idfs[x], then normalized
Tfidfs(token_tfs, token_idfs) ==
  normalize([num |-> [k \in 1..Len(token_tfs.num) |-> token_tfs.num[k] * token_idfs[k]],
             den |-> token_tfs.den])

\* tokens_with_idfs.sort(key=lambda tup: tup[1], reverse=True): the indices of
\* the tokens by decreasing tfidf, equal values in their original order
RECURSIVE Decreasing(_, _)
Decreasing(rest, tfidfs) ==
  IF rest = {} THEN <<>>
  ELSE LET top == CHOOSE k \in rest :
                    \A j \in rest : \/ tfidfs[k] > tfidfs[j]
                                    \/ (tfidfs[k] = tfidfs[j] /\ k <= j)
       IN <<top>> \o Decreasing(rest \ {top}, tfidfs)

\* the loop that fills prequery, from the k-th token of the sorted list
RECURSIVE Prequery(_, _, _, _, _, _)
Prequery(prequery, order, k, tokens, tfidfs, perc) ==
  IF k > Len(order) THEN prequery
  ELSE IF 100 * tfidfs.num[order[k]] >= perc
       THEN LET added == prequery \cup {tokens[order[k]]}
            IN IF Cardinality(added) >= PrequeryLimit THEN added
               ELSE Prequery(added, order, k + 1, tokens, tfidfs, perc)
       ELSE prequery

\* cutoff, perc and prequery of a non-empty token list
SelectKeywordsOf(tokens, tfidfs) ==
  LET cutoff == get_cutoff(tfidfs)
      perc == percentile(tfidfs.num, cutoff)
  IN Prequery({}, Decreasing(1..Len(tokens), tfidfs.num), 1, tokens, tfidfs, perc)

\* the keywords in the order of tokens, and the cut to 7 of more than 8
OrderKeywordsOf(tokens, prequery) ==
  LET query == SelectSeq(tokens, LAMBDA token : token \in prequery)
  IN IF Len(query) > QueryLimit THEN Slice(query, 0, QueryKept) ELSE query

\* the body of the loop over reversed(title_array)
PrependKeyword(query, title_keyword) ==
  LET keyword == Utf8Encode(UnicodeLower(title_keyword))
  IN IF \A k \in 1..Len(query) : query[k] # keyword
     THEN <<keyword>> \o query
     ELSE query

\* Claim.get_query as a function of the claim c: whether it raises, and the
\* query it stores
get_query(c, dictionary, article_count, empty_percentile) ==
  LET got == get_tokens_with_tfs(split_in_sents(c.text), c.article_text, c.claim_type)
      tfidfs == Tfidfs(got.token_tfs, get_idfs(got.tokens, dictionary, article_count))
      prequery == IF got.tokens = <<>> THEN {} ELSE SelectKeywordsOf(got.tokens, tfidfs)
      keywords == OrderKeywordsOf(got.tokens, prequery)
      title_array == tokenize(c.title)
      Prepended[k \in 0..Len(title_array)] ==
        IF k = 0 THEN keywords
        ELSE PrependKeyword(Prepended[k - 1], title_array[Len(title_array) - k + 1])
  IN IF got.raised \/ (got.tokens = <<>> /\ empty_percentile = "IndexError")
     THEN [raised |-> TRUE, query |-> None]
     ELSE [raised |-> FALSE,
           query |-> Join(Prepended[Len(title_array)], <<" ">>)]

(***************************************************************************)
(* Claim.get_query: inputs, and the method as a process.                   *)
(***************************************************************************)
\* longest claim text enumerated exhaustively
MaxClaimLen == 3

ClaimAlphabet == {"a", "B", ".", " "}

ClaimStrings ==
  UNION {[1..n -> ClaimAlphabet] : n \in 0..MaxClaimLen}

\* 'a b c d e f g h'
ExEight == <<"a"," ","b"," ","c"," ","d"," ","e"," ","f"," ","g"," ","h">>

\* 'a b c d e f g h i'
ExNine == <<"a"," ","b"," ","c"," ","d"," ","e"," ","f"," ","g"," ","h"," ","i">>

\* 'a b c d e f g h i j k'
ExEleven == <<"a"," ","b"," ","c"," ","d"," ","e"," ","f"," ","g"," ","h"," ","i"," ","j"," ","k">>

\* 'x b'
ExShort == <<"x"," ","b">>

\* 'Ab cd. Ef ab. Gh ab ab. Ij cd'
ExFour == <<"A","b"," ","c","d","."," ","E","f"," ","a","b","."," ","G","h"," ","a","b"," ","a","b","."," ","I","j"," ","c","d">>

\* 'b a. c a a. d a'
ExThree == <<"b"," ","a","."," ","c"," ","a"," ","a","."," ","d"," ","a">>

\* 'a b. c. a b'
ExRepeated == <<"a"," ","b","."," ","c","."," ","a"," ","b">>

\* ' Ab cd. Ab cd': the same sentence twice
ExTwice == <<" ","A","b"," ","c","d","."," ","A","b"," ","c","d">>

\* U+00E9 'a' U+00C9: the same accented word twice
ExAccent == <<LowerE, " ", "a", " ", UpperE>>

ClaimExamples ==
  {ExEight, ExNine, ExEleven, ExShort, ExFour, ExThree, ExRepeated, ExTwice,
   ExAccent}

ClaimTexts == ClaimStrings \cup ClaimExamples

\* '', 'a', 'B a', 'b b', 'T u', U+00C9, 'The a of the B'
Titles ==
  {<<>>, <<"a">>, <<"B", " ", "a">>, <<"b", " ", "b">>, <<"T", " ", "u">>,
   <<UpperE>>, <<"T","h","e"," ","a"," ","o","f"," ","t","h","e"," ","B">>}

\* the article the claim is taken from, when it is more than the claim
ExArticle == <<"a"," ","b"," ","b","."," ","c"," ","c"," ","c"," ","d","."," ","A","b"," ","a","b">>

\* general/articlecount
ArticleCount == 8

\* a dictionary that knows no token
DictNone == <<>>

\* one that knows some tokens, 'e' in no document
DictSome ==
  (<<"a">> :> 8) @@ (<<"b">> :> 1) @@ (<<"c">> :> 4) @@ (<<"d">> :> 2)
    @@ (<<"x">> :> 2) @@ (<<"a", "b">> :> 4) @@ (<<LowerE>> :> 1)
    @@ (<<"e">> :> 0)

\* one that knows 'a' to be common and 'b' to 'h' to be rare
DictMost ==
  (<<"a">> :> 4) @@ (<<"b">> :> 1) @@ (<<"c">> :> 1) @@ (<<"d">> :> 1)
    @@ (<<"e">> :> 1) @@ (<<"f">> :> 1) @@ (<<"g">> :> 1) @@ (<<"h">> :> 1)

Dictionaries == {DictNone, DictSome, DictMost}

\* the call claim.get_query(dictionary, article_count)
QueryInit ==
  /\ IdleBut({"query"})
  /\ \E title \in Titles, text \in ClaimTexts, claim_type \in {"B", "F"} :
       \E article_text \in {text, ExArticle} :
         claim = NewClaim(title, text, claim_type, article_text)
  /\ dict_dfs \in Dictionaries
  /\ numpy_empty \in {"nan", "IndexError"}
  /\ q_tokens = <<>> /\ q_tfidfs = [num |-> <<>>, den |-> 1] /\ q_prequery = {}
  /\ q_query = <<>> /\ q_title = <<>> /\ q_i = 0
  /\ qpc = "tokens"

\* lines 115-130: the tokens and their normalized tfidfs
GetTokens ==
  /\ qpc = "tokens"
  /\ LET got == get_tokens_with_tfs(split_in_sents(claim.text), claim.article_text,
                                    claim.claim_type)
     IN IF got.raised
        THEN /\ qpc' = "raised"
             /\ UNCHANGED <<q_tokens, q_tfidfs>>
        ELSE /\ q_tokens' = got.tokens
             /\ q_tfidfs' = Tfidfs(got.token_tfs,
                                   get_idfs(got.tokens, dict_dfs, ArticleCount))
             /\ qpc' = "select"
  /\ UNCHANGED <<claim, dict_dfs, numpy_empty, q_prequery, q_query, q_title, q_i>>
  /\ UNCHANGED NotQuery

\* lines 133-149: cutoff, perc and prequery
SelectKeywords ==
  /\ qpc = "select"
  /\ IF q_tokens = <<>>
     THEN IF numpy_empty = "IndexError"
          THEN qpc' = "raised" /\ UNCHANGED q_prequery
          ELSE qpc' = "order" /\ q_prequery' = {}
     ELSE qpc' = "order" /\ q_prequery' = SelectKeywordsOf(q_tokens, q_tfidfs)
  /\ UNCHANGED <<claim, dict_dfs, numpy_empty, q_tokens, q_tfidfs, q_query, q_title, q_i>>
  /\ UNCHANGED NotQuery

\* lines 151-164: query and title_array
OrderKeywords ==
  /\ qpc = "order"
  /\ q_query' = OrderKeywordsOf(q_tokens, q_prequery)
  /\ q_title' = tokenize(claim.title)
  /\ q_i' = Len(q_title')
  /\ qpc' = "title"
  /\ UNCHANGED <<claim, dict_dfs, numpy_empty, q_tokens, q_tfidfs, q_prequery>>
  /\ UNCHANGED NotQuery

\* lines 168-176, for one keyword of reversed(title_array)
PrependTitle ==
  /\ qpc = "title"
  /\ q_i > 0
  /\ q_query' = PrependKeyword(q_query, q_title[q_i])
  /\ q_i' = q_i - 1
  /\ UNCHANGED <<claim, dict_dfs, numpy_empty, q_tokens, q_tfidfs, q_prequery, q_title,
                 qpc>>
  /\ UNCHANGED NotQuery

\* line 178
StoreQuery ==
  /\ qpc = "title"
  /\ q_i = 0
  /\ claim' = [claim EXCEPT !.query = Join(q_query, <<" ">>)]
  /\ qpc' = "done"
  /\ UNCHANGED <<dict_dfs, numpy_empty, q_tokens, q_tfidfs, q_prequery, q_query, q_title,
                 q_i>>
  /\ UNCHANGED NotQuery

QueryNext == GetTokens \/ SelectKeywords \/ OrderKeywords \/ PrependTitle \/ StoreQuery

(***************************************************************************)
(* claims.py: ArticleClaims.from_text.                                     *)
(***************************************************************************)
\* len(claim) < 15
MinClaimLength == 15

\* claim[-4:]
ColonWindow == 4

\* len(claims[claim_no+1]) > 5
ShortNextLength == 5

\* claim[-n:]
LastChars(q, n) == IF Len(q) > n THEN SliceFrom(q, Len(q) - n) ELSE q

\* claims = line.split("$$CNMARK$$"), for the line at 0-based index n
LineClaims(all_lines, n) == SplitOn(all_lines[n + 1], CNMARK)

\* the Forward branch when the next segment is short: the lines of the list
\* that follows, from lines[line_no + i]; an index past the last line raises
\* IndexError
RECURSIVE ExtendByList(_, _, _, _)
ExtendByList(text, all_lines, n, i) ==
  IF n + i >= Len(all_lines) THEN [raised |-> TRUE, text |-> text]
  ELSE IF Contains(all_lines[n + i + 1], <<"*">>)
       THEN ExtendByList(text \o all_lines[n + i + 1], all_lines, n, i + 1)
       ELSE [raised |-> FALSE, text |-> text]

\* the Forward branch, lines 553-581
ForwardClaim(all_lines, n, k) ==
  LET segments == LineClaims(all_lines, n)
      sents == split_in_sents(segments[k + 1])
      last == sents[Len(sents)]
  IN IF Len(segments[k + 2]) > ShortNextLength
     THEN [raised |-> FALSE, text |-> last \o segments[k + 2]]
     ELSE IF n + 1 >= Len(all_lines)
          THEN [raised |-> TRUE, text |-> last]
          ELSE IF Contains(all_lines[n + 2], <<"*">>)
               THEN ExtendByList(last, all_lines, n, 1)
               ELSE [raised |-> FALSE, text |-> last \o <<" ">> \o all_lines[n + 2]]

\* the Backward branch, lines 583-590
BackwardClaim(all_lines, n, k) ==
  LET segments == LineClaims(all_lines, n)
  IN (IF k - 2 >= 0 THEN segments[k - 1] ELSE <<>>)
       \o (IF k - 1 >= 0 THEN segments[k] ELSE <<>>)
       \o segments[k + 1]

\* whether the segment is taken as Forward
IsForward(segment) == Contains(LastChars(segment, ColonWindow), <<":">>)

(***************************************************************************)
(* ArticleClaims.from_text: inputs, and the method as a process.  An       *)
(* article text is a concatenation of a few blocks.                        *)
(***************************************************************************)
\* most blocks of an article text
MaxBlocks == 4

\* 'The sky is blue', 15 characters
BlockLong == <<"T","h","e"," ","s","k","y"," ","i","s"," ","b","l","u","e">>

\* 'Dr. No. Such as: ', a segment of 17 characters with ':' near its end
BlockColon == <<"D","r","."," ","N","o","."," ","S","u","c","h"," ","a","s",":"," ">>

\* 'it is', 5 characters
BlockShort == <<"i","t"," ","i","s">>

\* ' and red', more than 5 and less than 15 characters
BlockMid == <<" ","a","n","d"," ","r","e","d">>

\* a list line '* item' after the end of a paragraph
BlockStar == <<"\n","*"," ","i","t","e","m">>

\* 'Dr. No. Such as: $$CNMARK$$': the segment with the marker that makes it
\* a claim
BlockColonMarked == BlockColon \o CNMARK

Blocks ==
  {BlockLong, BlockColonMarked, BlockShort, BlockMid, BlockStar, CNMARK, <<"\n">>}

RECURSIVE Articles(_)
Articles(n) ==
  IF n = 0 THEN {<<>>}
  ELSE Articles(n - 1) \cup {a \o b : a \in Articles(n - 1), b \in Blocks}

ArticleTitle == <<"T">>

\* the call ArticleClaims(id, title, text).from_text(), up to the loop
ClaimsInit ==
  /\ IdleBut({"claims"})
  /\ \E text \in Articles(MaxBlocks) :
       /\ article = NewArticleClaims(ArticleTitle, text)
       /\ lines = SplitOn(text, <<"\n">>)
  /\ line_no = 0 /\ claim_no = 0 /\ emitted_at = <<>>
  /\ fpc = "loop"

\* a line without marker, or the last segment of a line: on to the next line
NextLine ==
  /\ fpc = "loop"
  /\ line_no < Len(lines)
  /\ \/ ~Contains(lines[line_no + 1], CNMARK)
     \/ claim_no = Len(LineClaims(lines, line_no)) - 1
  /\ line_no' = line_no + 1
  /\ claim_no' = 0
  /\ UNCHANGED <<article, lines, emitted_at, fpc>>
  /\ UNCHANGED NotClaims

\* a segment of less than 15 characters: continue
SkipShort ==
  /\ fpc = "loop"
  /\ line_no < Len(lines)
  /\ Contains(lines[line_no + 1], CNMARK)
  /\ claim_no < Len(LineClaims(lines, line_no)) - 1
  /\ Len(LineClaims(lines, line_no)[claim_no + 1]) < MinClaimLength
  /\ claim_no' = claim_no + 1
  /\ UNCHANGED <<article, lines, line_no, emitted_at, fpc>>
  /\ UNCHANGED NotClaims

\* a segment of at least 15 characters: its claim is appended, or IndexError
\* leaves from_text
EmitClaim ==
  /\ fpc = "loop"
  /\ line_no < Len(lines)
  /\ Contains(lines[line_no + 1], CNMARK)
  /\ claim_no < Len(LineClaims(lines, line_no)) - 1
  /\ Len(LineClaims(lines, line_no)[claim_no + 1]) >= MinClaimLength
  /\ IF IsForward(LineClaims(lines, line_no)[claim_no + 1])
     THEN LET forward == ForwardClaim(lines, line_no, claim_no)
          IN IF forward.raised
             THEN /\ fpc' = "raised"
                  /\ UNCHANGED <<article, claim_no, emitted_at>>
             ELSE /\ article' = [article EXCEPT !.claims =
                       Append(@, NewClaim(article.title, forward.text, "F", article.text))]
                  /\ emitted_at' = Append(emitted_at, <<line_no, claim_no>>)
                  /\ claim_no' = claim_no + 1
                  /\ UNCHANGED fpc
     ELSE /\ article' = [article EXCEPT !.claims =
               Append(@, NewClaim(article.title, BackwardClaim(lines, line_no, claim_no),
                                  "B", article.text))]
          /\ emitted_at' = Append(emitted_at, <<line_no, claim_no>>)
          /\ claim_no' = claim_no + 1
          /\ UNCHANGED fpc
  /\ UNCHANGED <<lines, line_no>>
  /\ UNCHANGED NotClaims

\* the loop over the lines has ended
ReturnClaims ==
  /\ fpc = "loop"
  /\ line_no = Len(lines)
  /\ fpc' = "done"
  /\ UNCHANGED <<article, lines, line_no, claim_no, emitted_at>>
  /\ UNCHANGED NotClaims

ClaimsNext == NextLine \/ SkipShort \/ EmitClaim \/ ReturnClaims

(***************************************************************************)
(* bingapi.py: BingResponse.__compare_site.  The similarity of a paragraph *)
(* to the claim is held as the dot product of the two bags of words and    *)
(* the squared norm of the paragraph's; the norm of the claim's bag is the *)
(* same for every paragraph of a call.                                     *)
(***************************************************************************)
\* len(similar_paragraph) > 1000, similar_paragraph[:1000]
ExcerptLimit == 1000

\* gensim.utils.tokenize(text, to_lower=True)
TokenizeLower(text) == tokenize(UnicodeLower(text))

\* dictionary.doc2bow(tokens): the number of occurrences of every token
Bow(tokens) ==
  [token \in {tokens[k] : k \in 1..Len(tokens)} |->
     Cardinality({k \in 1..Len(tokens) : tokens[k] = token})]

RECURSIVE SumOver(_, _)
SumOver(bow, keys) ==
  IF keys = {} THEN 0
  ELSE LET key == CHOOSE k \in keys : TRUE
       IN bow[key] + SumOver(bow, keys \ {key})

\* the dot product of two bags, and the squared length of one
Dot(bow1, bow2) ==
  LET common == DOMAIN bow1 \cap DOMAIN bow2
  IN SumOver([token \in common |-> bow1[token] * bow2[token]], common)

\* gensim.matutils.cossim(paragraph_bow, claim_bow): 0.0 when a vector has
\* no length
cossim(paragraph_bow, claim_bow) ==
  IF Dot(paragraph_bow, paragraph_bow) = 0 \/ Dot(claim_bow, claim_bow) = 0
  THEN ZeroSimilarity
  ELSE [dot |-> Dot(paragraph_bow, claim_bow), norm |-> Dot(paragraph_bow, paragraph_bow)]

\* sim1 < sim2, for two similarities to the same claim: dot / sqrt(norm) is
\* compared by its square
SimilarityLess(sim1, sim2) == sim1.dot * sim1.dot * sim2.norm < sim2.dot * sim2.dot * sim1.norm

\* the similarity of a paragraph text to the claim, lines 274-279
ParagraphSimilarity(paragraph, claimed) ==
  cossim(Bow(TokenizeLower(paragraph)), Bow(TokenizeLower(claimed)))

\* line 280: whether the paragraph replaces the most similar one so far
ReplacesOnTie(maximum, similarity) == ~SimilarityLess(similarity, maximum)

Replaces(maximum, similarity) == SimilarityLess(maximum, similarity)

\* lines 288-290: the excerpt returned for similar_paragraph
ExcerptLong(paragraph) == paragraph

ExcerptOffByOne(paragraph) ==
  IF Len(paragraph) > ExcerptLimit THEN Slice(paragraph, 0, ExcerptLimit + 1) ELSE paragraph

Excerpt(paragraph) ==
  IF Len(paragraph) > ExcerptLimit THEN Slice(paragraph, 0, ExcerptLimit) ELSE paragraph

(***************************************************************************)
(* BingResponse: the web as the candidates see it, and the scoring of the  *)
(* search results as a process.                                            *)
(***************************************************************************)
\* most search results of one response
MaxSites == 2

\* a word of n letters
LongWord(n) == [k \in 1..n |-> "x"]

\* 'Zz yy'
ParUnrelated == <<"Z","z"," ","y","y">>

\* 'Ab cd ef'
ParHit == <<"A","b"," ","c","d"," ","e","f">>

\* 'ef cd ab', as similar as ParHit to any claim
ParTie == <<"e","f"," ","c","d"," ","a","b">>

\* 'ab cd'
ParBest == <<"a","b"," ","c","d">>

\* 'ab ' and a word that makes 1001 characters
ParLong == <<"a", "b", " ">> \o LongWord(ExcerptLimit - 2)

\* 'ab ' and a word that makes 1000 characters
ParExact == <<"a", "b", " ">> \o LongWord(ExcerptLimit - 3)

\* a page: whether urlopen and read succeed, whether justext succeeds, whether
\* the tokenizing and vectorizing succeed, and the paragraphs justext finds
Page(fetched, extracted, tokenized, pars) ==
  [fetched |-> fetched, extracted |-> extracted, tokenized |-> tokenized,
   paragraphs |-> pars]

Web ==
  [url \in {"down", "binary", "undecodable", "empty", "unrelated", "short", "long",
            "exact"} |->
     CASE url = "down" -> Page(FALSE, FALSE, FALSE, <<>>)
       [] url = "binary" -> Page(TRUE, FALSE, FALSE, <<>>)
       [] url = "undecodable" -> Page(TRUE, TRUE, FALSE, <<ParHit>>)
       [] url = "empty" -> Page(TRUE, TRUE, TRUE, <<>>)
       [] url = "unrelated" -> Page(TRUE, TRUE, TRUE, <<ParUnrelated>>)
       [] url = "short" -> Page(TRUE, TRUE, TRUE, <<ParUnrelated, ParHit, ParTie, ParBest>>)
       [] url = "long" -> Page(TRUE, TRUE, TRUE, <<ParTie, ParHit, ParLong, ParUnrelated>>)
       [] url = "exact" -> Page(TRUE, TRUE, TRUE, <<ParExact>>)]

\* a search result
Website(url) == [url |-> url, name |-> <<"n">>, snippet |-> <<"s">>]

RECURSIVE Responses(_)
Responses(n) ==
  IF n = 0 THEN {<<>>}
  ELSE Responses(n - 1)
         \cup {Append(sites, Website(url)) : sites \in Responses(n - 1), url \in DOMAIN Web}

\* 'Ab cd', 'zz ab' and a claim without a word
ClaimsScored ==
  {<<"A","b"," ","c","d">>, <<"z","z"," ","a","b">>, <<"1", "2">>}

\* BingResponse.__init__ after the search: self.valid_sites = []
BingInit ==
  /\ IdleBut({"bing"})
  /\ claim_text \in ClaimsScored
  /\ response_sites \in Responses(MaxSites)
  /\ valid_sites = <<>> /\ requested = <<>> /\ site_i = 0
  /\ actual_url = None /\ paragraphs = <<>> /\ par_i = 0
  /\ max_similarity = ZeroSimilarity /\ similar_paragraph = <<>>
  /\ response_tuple = None /\ bpc = "site"

\* the candidate being compared
CurrentPage == Web[response_sites[site_i + 1].url]

\* for website in self.response_sites: the call of __compare_site
CompareSite ==
  /\ bpc = "site"
  /\ site_i < Len(response_sites)
  /\ bpc' = "fetch"
  /\ UNCHANGED <<claim_text, response_sites, valid_sites, requested, site_i, actual_url,
                 paragraphs,
                 par_i, max_similarity, similar_paragraph, response_tuple>>
  /\ UNCHANGED NotBing

\* lines 211-216: urlopen, geturl, read
FetchPage ==
  /\ bpc = "fetch"
  /\ IF CurrentPage.fetched
     THEN /\ actual_url' = response_sites[site_i + 1].url
          /\ bpc' = "extract"
          /\ UNCHANGED response_tuple
     ELSE /\ response_tuple' = None
          /\ bpc' = "returned"
          /\ UNCHANGED actual_url
  /\ requested' = Append(requested, response_sites[site_i + 1].url)
  /\ UNCHANGED <<claim_text, response_sites, valid_sites, site_i, paragraphs, par_i,
                 max_similarity, similar_paragraph>>
  /\ UNCHANGED NotBing

\* lines 218-221: justext
ExtractParagraphs ==
  /\ bpc = "extract"
  /\ IF CurrentPage.extracted
     THEN /\ paragraphs' = CurrentPage.paragraphs
          /\ bpc' = "tokenize"
          /\ UNCHANGED response_tuple
     ELSE /\ response_tuple' = None
          /\ bpc' = "returned"
          /\ UNCHANGED paragraphs
  /\ UNCHANGED <<claim_text, response_sites, valid_sites, requested, site_i, actual_url,
                 par_i,
                 max_similarity, similar_paragraph>>
  /\ UNCHANGED NotBing

\* lines 223-271: tokens, dictionary and bags of words, in no try; then
\* similar_paragraph = "" and max_similarity = 0
TokenizePage ==
  /\ bpc = "tokenize"
  /\ IF CurrentPage.tokenized
     THEN /\ similar_paragraph' = <<>>
          /\ max_similarity' = ZeroSimilarity
          /\ par_i' = 0
          /\ bpc' = "compare"
     ELSE /\ bpc' = "raised"
          /\ UNCHANGED <<similar_paragraph, max_similarity, par_i>>
  /\ UNCHANGED <<claim_text, response_sites, valid_sites, requested, site_i, actual_url,
                 paragraphs,
                 response_tuple>>
  /\ UNCHANGED NotBing

\* lines 273-282: the body of the loop over the paragraphs
CompareParagraph ==
  /\ bpc = "compare"
  /\ par_i < Len(paragraphs)
  /\ LET paragraph_similarity == ParagraphSimilarity(paragraphs[par_i + 1], claim_text)
     IN IF Replaces(max_similarity, paragraph_similarity)
        THEN /\ max_similarity' = paragraph_similarity
             /\ similar_paragraph' = paragraphs[par_i + 1]
        ELSE UNCHANGED <<max_similarity, similar_paragraph>>
  /\ par_i' = par_i + 1
  /\ UNCHANGED <<claim_text, response_sites, valid_sites, requested, site_i, actual_url,
                 paragraphs,
                 response_tuple, bpc>>
  /\ UNCHANGED NotBing

\* lines 288-292
ReturnExcerpt ==
  /\ bpc = "compare"
  /\ par_i = Len(paragraphs)
  /\ response_tuple' = <<actual_url, Excerpt(similar_paragraph)>>
  /\ bpc' = "returned"
  /\ UNCHANGED <<claim_text, response_sites, valid_sites, requested, site_i, actual_url,
                 paragraphs,
                 par_i, max_similarity, similar_paragraph>>
  /\ UNCHANGED NotBing

\* lines 116-120: the tuple, when there is one, goes to valid_sites
AppendSite ==
  /\ bpc = "returned"
  /\ valid_sites' = IF response_tuple # None
                    THEN Append(valid_sites,
                                <<response_tuple[1], response_sites[site_i + 1].name,
                                  response_sites[site_i + 1].snippet, response_tuple[2]>>)
                    ELSE valid_sites
  /\ site_i' = site_i + 1
  /\ bpc' = "site"
  /\ UNCHANGED <<claim_text, response_sites, requested, actual_url, paragraphs, par_i,
                 max_similarity, similar_paragraph, response_tuple>>
  /\ UNCHANGED NotBing

\* the loop of __init__ has ended
ReturnResponse ==
  /\ bpc = "site"
  /\ site_i = Len(response_sites)
  /\ bpc' = "done"
  /\ UNCHANGED <<claim_text, response_sites, valid_sites, requested, site_i, actual_url,
                 paragraphs,
                 par_i, max_similarity, similar_paragraph, response_tuple>>
  /\ UNCHANGED NotBing

BingNext ==
  \/ CompareSite \/ FetchPage \/ ExtractParagraphs \/ TokenizePage
  \/ CompareParagraph \/ ReturnExcerpt \/ AppendSite \/ ReturnResponse

(***************************************************************************)
(* The run: FinderWikiCorpus.get_claims (finderwikicorpus.py) and          *)
(* _get_response_data (runfinder.py), with BingResponse.__init__ and       *)
(* __get_response_sites (bingapi.py).  An article of the dump carries what *)
(* its extraction does; a claim what get_query, the search request and the *)
(* fetching of every search result do.                                     *)
(***************************************************************************)
\* most articles of a dump
MaxArticles == 2

\* a claim: get_query returns ("ok") or raises ("raises"); the search gives
\* results ("ok"), fails to connect ("ConnectionError"), answers what is not
\* JSON ("ValueError") or JSON without webPages ("KeyError"); a search result
\* is scored ("ok"), cannot be fetched ("down"), cannot be extracted
\* ("binary") or cannot be tokenized ("undecodable")
RunClaim(query_outcome, search_outcome, candidates) ==
  [get_query |-> query_outcome, search |-> search_outcome, candidates |-> candidates]

ClaimFine == RunClaim("ok", "ok", <<"ok">>)

ClaimNoQuery == RunClaim("raises", "ok", <<"ok">>)

ClaimOffline == RunClaim("ok", "ConnectionError", <<>>)

ClaimNotJson == RunClaim("ok", "ValueError", <<>>)

ClaimNoWebPages == RunClaim("ok", "KeyError", <<>>)

ClaimDeadLinks == RunClaim("ok", "ok", <<"down", "binary", "ok">>)

ClaimUndecodable == RunClaim("ok", "ok", <<"undecodable", "ok">>)

\* an article: from_text returns ("ok") or raises ("IndexError")
RunArticle(extraction, article_claims) ==
  [extraction |-> extraction, claims |-> article_claims]

RunArticles ==
  {RunArticle("IndexError", <<>>),
   RunArticle("ok", <<>>),
   RunArticle("ok", <<ClaimFine, ClaimDeadLinks>>),
   RunArticle("ok", <<ClaimNoQuery, ClaimFine>>),
   RunArticle("ok", <<ClaimOffline, ClaimFine>>),
   RunArticle("ok", <<ClaimNotJson, ClaimFine>>),
   RunArticle("ok", <<ClaimNoWebPages, ClaimFine>>),
   RunArticle("ok", <<ClaimUndecodable, ClaimFine>>)}

RECURSIVE Corpora(_)
Corpora(n) ==
  IF n = 0 THEN {<<>>}
  ELSE Corpora(n - 1) \cup {Append(c, a) : c \in Corpora(n - 1), a \in RunArticles}

\* finderWiki.get_claims()
RunInit ==
  /\ IdleBut({"run"})
  /\ corpus \in Corpora(MaxArticles)
  /\ claim_list = <<>> /\ queried = <<>> /\ art_i = 0 /\ cl_i = 0 /\ cand_i = 0
  /\ found_sites = <<>> /\ claims_responses = <<>> /\ result = <<>>
  /\ rpc = "extract"

\* get_claims: for claims in pool.imap(get_article_claims, group), in no try
ExtractArticle ==
  /\ rpc = "extract"
  /\ art_i < Len(corpus)
  /\ IF corpus[art_i + 1].extraction = "ok"
     THEN /\ claim_list' = Append(claim_list, art_i + 1)
          /\ art_i' = art_i + 1
          /\ UNCHANGED rpc
     ELSE /\ rpc' = "raised"
          /\ UNCHANGED <<claim_list, art_i>>
  /\ UNCHANGED <<corpus, queried, cl_i, cand_i, found_sites, claims_responses, result>>
  /\ UNCHANGED NotRun

\* get_claims: pool.terminate(), and on to the queries
ExtractionDone ==
  /\ rpc = "extract"
  /\ art_i = Len(corpus)
  /\ rpc' = "query"
  /\ art_i' = 0 /\ cl_i' = 0
  /\ UNCHANGED <<corpus, claim_list, queried, cand_i, found_sites, claims_responses,
                 result>>
  /\ UNCHANGED NotRun

\* the claims of the article at 0-based index n of claim_list
ClaimsOf(n) == corpus[claim_list[n + 1]].claims

\* get_claims: c.get_query(self.dictionary, self.articlecount), in no try
QueryClaim ==
  /\ rpc = "query"
  /\ art_i < Len(claim_list)
  /\ cl_i < Len(ClaimsOf(art_i))
  /\ IF ClaimsOf(art_i)[cl_i + 1].get_query = "ok"
     THEN /\ queried' = Append(queried, <<claim_list[art_i + 1], cl_i + 1>>)
          /\ cl_i' = cl_i + 1
          /\ UNCHANGED rpc
     ELSE /\ rpc' = "raised"
          /\ UNCHANGED <<queried, cl_i>>
  /\ UNCHANGED <<corpus, claim_list, art_i, cand_i, found_sites, claims_responses, result>>
  /\ UNCHANGED NotRun

\* get_claims: for x in claim_list, the next x
QueryNextArticle ==
  /\ rpc = "query"
  /\ art_i < Len(claim_list)
  /\ cl_i = Len(ClaimsOf(art_i))
  /\ art_i' = art_i + 1
  /\ cl_i' = 0
  /\ UNCHANGED <<corpus, claim_list, queried, cand_i, found_sites, claims_responses,
                 result, rpc>>
  /\ UNCHANGED NotRun

\* get_claims returns claim_list; _get_response_data: result = []
QueriesDone ==
  /\ rpc = "query"
  /\ art_i = Len(claim_list)
  /\ rpc' = "article"
  /\ art_i' = 0 /\ cl_i' = 0
  /\ result' = <<>>
  /\ UNCHANGED <<corpus, claim_list, queried, cand_i, found_sites, claims_responses>>
  /\ UNCHANGED NotRun

\* _get_response_data: for article in article_claims, lines 53-68
StartArticle ==
  /\ rpc = "article"
  /\ art_i < Len(claim_list)
  /\ claims_responses' = <<>>
  /\ cl_i' = 0
  /\ rpc' = "search"
  /\ UNCHANGED <<corpus, claim_list, queried, art_i, cand_i, found_sites, result>>
  /\ UNCHANGED NotRun

\* SearchClaim with the query of the claim computed again for the search
SearchClaimRequery ==
  /\ rpc = "search"
  /\ cl_i < Len(ClaimsOf(art_i))
  /\ LET outcome == ClaimsOf(art_i)[cl_i + 1].search
     IN rpc' = CASE outcome = "ConnectionError" -> "raised"
                 [] outcome = "ValueError" -> "exit"
                 [] OTHER -> "sites"
  /\ cand_i' = 0
  /\ found_sites' = <<>>
  /\ queried' = Append(queried, <<claim_list[art_i + 1], cl_i + 1>>)
  /\ UNCHANGED <<corpus, claim_list, art_i, cl_i, claims_responses, result>>
  /\ UNCHANGED NotRun

\* BingResponse.__init__ up to self.valid_sites = []: __get_response_sites
\* lets the exception of requests.get pass, raises SystemExit on ValueError
\* and takes any other failure for no result; lines 71-79 catch nothing
SearchClaim ==
  /\ rpc = "search"
  /\ cl_i < Len(ClaimsOf(art_i))
  /\ LET outcome == ClaimsOf(art_i)[cl_i + 1].search
     IN rpc' = CASE outcome = "ConnectionError" -> "raised"
                 [] outcome = "ValueError" -> "exit"
                 [] OTHER -> "sites"
  /\ cand_i' = 0
  /\ found_sites' = <<>>
  /\ UNCHANGED <<corpus, claim_list, queried, art_i, cl_i, claims_responses, result>>
  /\ UNCHANGED NotRun

\* the search results of the claim being handled
SitesOf(n, k) ==
  IF ClaimsOf(n)[k + 1].search = "ok" THEN ClaimsOf(n)[k + 1].candidates ELSE <<>>

\* BingResponse.__init__: for website in self.response_sites, with
\* __compare_site returning None, returning a tuple or raising
CompareCandidate ==
  /\ rpc = "sites"
  /\ cand_i < Len(SitesOf(art_i, cl_i))
  /\ LET outcome == SitesOf(art_i, cl_i)[cand_i + 1]
     IN CASE outcome = "undecodable" ->
               rpc' = "raised" /\ UNCHANGED <<cand_i, found_sites>>
          [] outcome = "ok" ->
               /\ found_sites' = Append(found_sites, cand_i + 1)
               /\ cand_i' = cand_i + 1
               /\ UNCHANGED rpc
          [] OTHER ->
               /\ cand_i' = cand_i + 1
               /\ UNCHANGED <<found_sites, rpc>>
  /\ UNCHANGED <<corpus, claim_list, queried, art_i, cl_i, claims_responses, result>>
  /\ UNCHANGED NotRun

\* lines 81-87: ClaimResponses(claim.text, google_link, valid_sites)
WrapClaim ==
  /\ rpc = "sites"
  /\ cand_i = Len(SitesOf(art_i, cl_i))
  /\ claims_responses' =
       Append(claims_responses, [claim |-> cl_i + 1, valid_sites |-> found_sites])
  /\ cl_i' = cl_i + 1
  /\ rpc' = "search"
  /\ UNCHANGED <<corpus, claim_list, queried, art_i, cand_i, found_sites, result>>
  /\ UNCHANGED NotRun

\* lines 91-93: ArticleResponse(article.id, article.title, claims_responses)
WrapArticle ==
  /\ rpc = "search"
  /\ cl_i = Len(ClaimsOf(art_i))
  /\ result' = Append(result, [article |-> claim_list[art_i + 1],
                               claims_responses |-> claims_responses])
  /\ art_i' = art_i + 1
  /\ rpc' = "article"
  /\ UNCHANGED <<corpus, claim_list, queried, cl_i, cand_i, found_sites,
                 claims_responses>>
  /\ UNCHANGED NotRun

\* line 95: return result
ReturnResult ==
  /\ rpc = "article"
  /\ art_i = Len(claim_list)
  /\ rpc' = "done"
  /\ UNCHANGED <<corpus, claim_list, queried, art_i, cl_i, cand_i, found_sites,
                 claims_responses, result>>
  /\ UNCHANGED NotRun

RunNext ==
  \/ ExtractArticle \/ ExtractionDone \/ QueryClaim \/ QueryNextArticle \/ QueriesDone
  \/ StartArticle \/ SearchClaim \/ CompareCandidate \/ WrapClaim \/ WrapArticle
  \/ ReturnResult

(***************************************************************************)
(* The main program of runfinder.py, lines 197-262, with the use of the    *)
(* [skipsites] section in _get_response_data.  A setting is "ok",          *)
(* "missing" (no such section or option), "invalid" (a value that cannot   *)
(* be used) or, for the API key, "none".                                   *)
(***************************************************************************)
\* most articles of the dump, and most claims found in one article
MaxDumpArticles == 2

MaxFoundClaims == 2

Configurations ==
  [articlecount : {"ok", "missing", "invalid"},
   wordids_path : {"ok", "missing", "invalid"},
   bing_api_key : {"ok", "missing", "none"},
   citation_needed : {"ok", "missing"},
   quote : {"ok", "missing"},
   skipsites : {"ok", "missing"}]

RECURSIVE Dumps(_)
Dumps(n) ==
  IF n = 0 THEN {<<>>}
  ELSE Dumps(n - 1) \cup {Append(dmp, k) : dmp \in Dumps(n - 1), k \in 0..MaxFoundClaims}

\* the [skipsites] section as preparefinder.py writes it, in short
SkipPrepared ==
  <<<<"wikipedia.org", "true">>, <<"google.com", "false">>, <<"revolvy.com", "true">>>>

\* one with a value that is not 'true'
SkipCapital == <<<<"wikia.com", "True">>, <<"wow.com", "true">>>>

SkipSections == {<<>>, SkipPrepared, SkipCapital}

\* [key for (key, value) in config.items('skipsites') if value == 'true']
TrueKeys(items) ==
  LET kept == SelectSeq(items, LAMBDA item : item[2] = "true")
  IN [k \in 1..Len(kept) |-> kept[k][1]]

\* lines 199-200: config.read(config_file)
MainInit ==
  /\ IdleBut({"main"})
  /\ config \in Configurations
  /\ dump \in Dumps(MaxDumpArticles)
  /\ skip_entries \in (IF config.skipsites = "ok" THEN SkipSections ELSE {<<>>})
  /\ skipsites_bound = FALSE /\ skipsites = <<>>
  /\ started = {} /\ m_article = 0 /\ m_claim = 0
  /\ exit_status = -1
  /\ mpc = "general"

\* an exception no one catches ends the interpreter with status 1
Uncaught ==
  /\ mpc' = "raised"
  /\ exit_status' = 1

\* sys.exit(1) after the message
Exit ==
  /\ mpc' = "exited"
  /\ exit_status' = 1

\* lines 202-203: getint('general', 'articlecount') and
\* get('general', 'wordids_path'), in no try
ReadGeneral ==
  /\ mpc = "general"
  /\ IF config.articlecount # "ok" \/ config.wordids_path = "missing"
     THEN Uncaught
     ELSE mpc' = "api_key" /\ UNCHANGED exit_status
  /\ UNCHANGED <<config, dump, skipsites_bound, skipsites, skip_entries, started,
                 m_article, m_claim>>
  /\ UNCHANGED NotMain

\* lines 205-215
ReadApiKey ==
  /\ mpc = "api_key"
  /\ IF config.bing_api_key \in {"missing", "none"}
     THEN Exit
     ELSE mpc' = "citation" /\ UNCHANGED exit_status
  /\ UNCHANGED <<config, dump, skipsites_bound, skipsites, skip_entries, started,
                 m_article, m_claim>>
  /\ UNCHANGED NotMain

\* lines 218-227
ReadCitationNeeded ==
  /\ mpc = "citation"
  /\ IF config.citation_needed = "missing"
     THEN Exit
     ELSE mpc' = "quote" /\ UNCHANGED exit_status
  /\ UNCHANGED <<config, dump, skipsites_bound, skipsites, skip_entries, started,
                 m_article, m_claim>>
  /\ UNCHANGED NotMain

\* lines 229-237
ReadQuote ==
  /\ mpc = "quote"
  /\ IF config.quote = "missing"
     THEN Exit
     ELSE mpc' = "dictionary" /\ UNCHANGED exit_status
  /\ UNCHANGED <<config, dump, skipsites_bound, skipsites, skip_entries, started,
                 m_article, m_claim>>
  /\ UNCHANGED NotMain

\* line 244: Dictionary.load_from_text(wordids), in no try
LoadDictionary ==
  /\ mpc = "dictionary"
  /\ started' = started \cup {"dictionary"}
  /\ IF config.wordids_path = "invalid"
     THEN Uncaught
     ELSE mpc' = "claims" /\ UNCHANGED exit_status
  /\ UNCHANGED <<config, dump, skipsites_bound, skipsites, skip_entries, m_article,
                 m_claim>>
  /\ UNCHANGED NotMain

\* lines 249-258: get_claims, and the call of _get_response_data
GetClaims ==
  /\ mpc = "claims"
  /\ started' = started \cup {"extraction"}
  /\ m_article' = 0
  /\ mpc' = "article"
  /\ UNCHANGED <<config, dump, skipsites_bound, skipsites, skip_entries, m_claim,
                 exit_status>>
  /\ UNCHANGED NotMain

\* _get_response_data, lines 54-68: the [skipsites] section is read for
\* every article, and a failure to read it is passed over
ReadSkipsites ==
  /\ mpc = "article"
  /\ m_article < Len(dump)
  /\ skipsites_bound' = (skipsites_bound \/ config.skipsites = "ok")
  /\ skipsites' = IF config.skipsites = "ok" THEN TrueKeys(skip_entries) ELSE skipsites
  /\ m_claim' = 0
  /\ mpc' = "claim"
  /\ UNCHANGED <<config, dump, skip_entries, started, m_article, exit_status>>
  /\ UNCHANGED NotMain

\* the root domains of the pages a search can return
CandidateDomains == {"wikia.com", "mirror.org"}

\* SearchSources with the disabled lines 245-265 of __compare_site at work:
\* the root domain of a page too similar to the article is added to the
\* section of the file and to ignored_sites
SearchSourcesBlacklisting ==
  /\ mpc = "claim"
  /\ m_claim < dump[m_article + 1]
  /\ IF skipsites_bound
     THEN /\ started' = started \cup {"search"}
          /\ m_claim' = m_claim + 1
          /\ \E root_domain \in CandidateDomains :
               IF \E k \in 1..Len(skip_entries) : skip_entries[k][1] = root_domain
               THEN UNCHANGED <<skipsites, skip_entries>>
               ELSE /\ skip_entries' = Append(skip_entries, <<root_domain, "true">>)
                    /\ skipsites' = Append(skipsites, root_domain)
          /\ UNCHANGED <<mpc, exit_status>>
     ELSE /\ Uncaught
          /\ UNCHANGED <<started, m_claim, skipsites, skip_entries>>
  /\ UNCHANGED <<config, dump, skipsites_bound, m_article>>
  /\ UNCHANGED NotMain

\* _get_response_data, lines 70-87: BingResponse(..., skipsites, ...) is a
\* NameError when skipsites was never assigned; the response keeps the list
\* as ignored_sites, and neither the search nor the scoring of the pages
\* (bingapi.py, lines 105-120 and 195-292) changes it or writes the file
SearchSources ==
  /\ mpc = "claim"
  /\ m_claim < dump[m_article + 1]
  /\ IF skipsites_bound
     THEN /\ started' = started \cup {"search"}
          /\ m_claim' = m_claim + 1
          /\ UNCHANGED <<mpc, exit_status>>
     ELSE /\ Uncaught
          /\ UNCHANGED <<started, m_claim>>
  /\ UNCHANGED <<config, dump, skipsites_bound, skipsites, skip_entries, m_article>>
  /\ UNCHANGED NotMain

\* _get_response_data, lines 91-93
AppendArticleResponse ==
  /\ mpc = "claim"
  /\ m_claim = dump[m_article + 1]
  /\ m_article' = m_article + 1
  /\ mpc' = "article"
  /\ UNCHANGED <<config, dump, skipsites_bound, skipsites, skip_entries, started,
                 m_claim, exit_status>>
  /\ UNCHANGED NotMain

\* lines 258-263: the result is returned, the report written, and the program
\* ends with status 0
CreateReport ==
  /\ mpc = "article"
  /\ m_article = Len(dump)
  /\ exit_status' = 0
  /\ mpc' = "done"
  /\ UNCHANGED <<config, dump, skipsites_bound, skipsites, skip_entries, started,
                 m_article, m_claim>>
  /\ UNCHANGED NotMain

MainNext ==
  \/ ReadGeneral \/ ReadApiKey \/ ReadCitationNeeded \/ ReadQuote \/ LoadDictionary
  \/ GetClaims \/ ReadSkipsites \/ SearchSources \/ AppendArticleResponse \/ CreateReport

(***************************************************************************)
(* The specifications.                                                     *)
(***************************************************************************)
SpecTemplate == TemplateInit /\ [][TemplateNext]_vars

SpecSplit == SplitInit /\ [][SplitNext]_vars

SpecQuery == QueryInit /\ [][QueryNext]_vars

SpecClaims == ClaimsInit /\ [][ClaimsNext]_vars

SpecBing == BingInit /\ [][BingNext]_vars

SpecRun == RunInit /\ [][RunNext]_vars

SpecMain == MainInit /\ [][MainNext]_vars

(***************************************************************************)
(* Properties of replace_citation_templates (SpecTemplate).                *)
(***************************************************************************)
CountChar(q, c) == Len(SelectSeq(q, LAMBDA ch : ch = c))

\* as many '{' as '}' in q[a..p] (0-based, inclusive)
Balanced(q, a, p) ==
  CountChar(Slice(q, a, p + 1), "{") = CountChar(Slice(q, a, p + 1), "}")

StartsWith(q, prefix) == MatchAt(q, prefix, 0)

\* the citation templates among the recorded spans
CitationSpans == {k \in 1..Len(ends) : is_cn(TemplateAt(s, starts, ends, k), set_citation)}

QuoteSpans ==
  {k \in 1..Len(ends) :
     /\ ~is_cn(TemplateAt(s, starts, ends, k), set_citation)
     /\ is_quote(TemplateAt(s, starts, ends, k), QuoteIdentifier)}

\* the text between the spans, joined
LiteralText == Join([k \in 1..(Len(ends) + 1) |-> SegmentAt(s, starts, ends, k)], <<>>)

\* neither the literal text nor an emitted quote text holds a '$'
NoDollarEmitted ==
  /\ CountChar(LiteralText, "$") = 0
  /\ \A k \in QuoteSpans :
       CountChar(get_quote(TemplateAt(s, starts, ends, k), TextIdentifier), "$") = 0

\* every citation template's marker stands where the template stood: right
\* after the rewriting of the text before it
MarkerInPlace ==
  \A k \in CitationSpans :
    StartsWith(rewritten,
               replace_citation_templates(Slice(s, 0, starts[k]), set_citation)
                 \o CNMARK)

\* 'x $$CNMARK$$ y'
ExCnRewritten == <<"x"," ","$","$","C","N","M","A","R","K","$","$"," ","y">>

\* C3 as stated: every citation template becomes one marker in place,
\* 'x {{cn}} y' gives 'x $$CNMARK$$ y', and the output holds as many markers
\* as there are citation templates whenever the literal text holds no marker.
C3_MarkerCountOriginal ==
  tpc = "done" =>
    /\ s = ExCn => rewritten = ExCnRewritten
    /\ MarkerInPlace
    /\ ~Contains(LiteralText, CNMARK)
         => CountMarks(rewritten) = Cardinality(CitationSpans)

\* C3 amended: as C3, with the count of markers equal to the count of
\* citation templates whenever neither the literal text nor the text emitted
\* for a quote template holds a '$' character.
C3_MarkerCount ==
  tpc = "done" =>
    /\ s = ExCn => rewritten = ExCnRewritten
    /\ MarkerInPlace
    /\ NoDollarEmitted => CountMarks(rewritten) = Cardinality(CitationSpans)

C3_Witness ==
  /\ tpc = "done"
  /\ s = ExUpper
  /\ Cardinality(CitationSpans) = 2
  /\ NoDollarEmitted
  /\ CountMarks(rewritten) = 2

\* C4: in every state of the scan, each recorded span starts at '{{', ends at
\* the first later position where the braces seen since the start balance,
\* the spans are disjoint and in document order, and no span starts inside
\* another; '{{a{{b}}c}}x{{d}}' has exactly the spans (0,10) and (12,16).
C4_Spans ==
  /\ Len(ends) <= Len(starts) /\ Len(starts) <= Len(ends) + 1
  /\ \A k \in 1..Len(starts) :
       s[starts[k] + 1] = "{" /\ s[starts[k] + 2] = "{"
  /\ \A k \in 1..Len(ends) :
       /\ starts[k] < ends[k]
       /\ Balanced(s, starts[k], ends[k])
       /\ \A p \in (starts[k] + 1)..(ends[k] - 1) : ~Balanced(s, starts[k], p)
       /\ k + 1 <= Len(starts) => ends[k] < starts[k + 1]
  /\ \A j \in 1..Len(ends) : \A k \in 1..Len(starts) :
       ~(starts[j] < starts[k] /\ starts[k] <= ends[j])
  /\ (s = ExNested /\ scan_i = Len(s)) => (starts = <<0, 12>> /\ ends = <<10, 16>>)

C4_Witness ==
  /\ tpc = "done"
  /\ s = ExNested
  /\ Len(ends) = 2

\* C5: an input without '{{' is returned unchanged, and rewriting an output
\* that holds no '{{' again returns it unchanged.
C5_NoTemplateIdentity ==
  tpc = "done" =>
    /\ ~Contains(s, <<"{","{">>) => rewritten = s
    /\ ~Contains(rewritten, <<"{","{">>)
         => replace_citation_templates(rewritten, set_citation) = rewritten

C5_Witness ==
  /\ tpc = "done"
  /\ ~Contains(s, <<"{","{">>)
  /\ Contains(s, <<"{">>) /\ Contains(s, <<"}">>) /\ Contains(s, <<"c">>)
  /\ rewritten = s

\* the literal text before the k-th span, or after the last one: the
\* characters of s strictly between two neighbouring spans
LiteralBefore(k) ==
  LET first == IF k = 1 THEN 1 ELSE ends[k - 1] + 2
      last == IF k = Len(ends) + 1 THEN Len(s) ELSE starts[k]
  IN SubSeq(s, first, last)

\* what the k-th span is replaced by when it is no quote template
Replacement(k) == IF k \in CitationSpans THEN CNMARK ELSE <<>>

RECURSIVE ExpectedUpTo(_)
ExpectedUpTo(k) ==
  IF k = 0 THEN <<>>
  ELSE ExpectedUpTo(k - 1) \o LiteralBefore(k) \o Replacement(k)

\* C14: for markup whose templates are all balanced and none of which is a
\* quote template, the output is the literal segments between the spans,
\* unchanged and in document order, with the marker in place of every
\* citation span and nothing in place of every other span.
C14_LiteralsPassThrough ==
  tpc = "done" /\ Len(starts) = Len(ends) /\ QuoteSpans = {} =>
    rewritten = ExpectedUpTo(Len(ends)) \o LiteralBefore(Len(ends) + 1)

\* a citation template and another template, with text before, between and
\* after them
C14_Witness ==
  /\ tpc = "done" /\ Len(starts) = Len(ends) /\ QuoteSpans = {}
  /\ CitationSpans # {}
  /\ \E k \in 1..Len(ends) : k \notin CitationSpans
  /\ \A k \in 1..(Len(ends) + 1) : LiteralBefore(k) # <<>>

\* a segment that consists solely of newline characters
NewlineOnly(piece) == Len(piece) > 0 /\ \A k \in 1..Len(piece) : piece[k] = "\n"

\* the step of the rewriting loop that emits a quote template
EmitsQuote == tpc = "scan" /\ tmpl_i' = tmpl_i + 1 /\ tmpl_i' \in QuoteSpans

\* the accumulated segments when the quote template is met, with the literal
\* text before it
Accumulated == Append(aList, LiteralBefore(tmpl_i + 1))

\* C15: when a quote template is emitted, the only accumulated segments
\* removed are trailing segments made solely of newline characters, and the
\* quote text is then preceded in the output by exactly one newline.
C15_QuoteDropsOnlyNewlines ==
  [][EmitsQuote =>
       \E m \in 0..Len(Accumulated) :
         /\ Len(aList') = m + 2
         /\ SubSeq(aList', 1, m) = SubSeq(Accumulated, 1, m)
         /\ \A j \in (m + 1)..Len(Accumulated) : NewlineOnly(Accumulated[j])
         /\ aList'[m + 1] = <<"\n">>
         /\ LET before == Join(SubSeq(aList', 1, m), <<>>)
            IN before = <<>> \/ before[Len(before)] # "\n"]_vars

\* text_identifier + '='
QuoteKey == TextIdentifier \o <<"=">>

\* the template the rewriting loop has just handled, and the text it emitted
\* for it when it is a quote template
CurrentTemplate == TemplateAt(s, starts, ends, tmpl_i)

EmittedQuote == aList[Len(aList)]

\* the pipe-delimited parts of the template between its outer braces
Parameters(template) ==
  SplitOn(Slice(Lower(template), 2, Len(template) - 2), <<"|">>)

HasTextParameter(template) ==
  \E k \in 1..Len(Parameters(template)) : Contains(Parameters(template)[k], QuoteKey)

\* the value of the text parameter: what follows '=' in its part, trimmed
TextParameterValue(template) ==
  LET parts == Parameters(template)
      k == CHOOSE j \in 1..Len(parts) :
             /\ Contains(parts[j], QuoteKey)
             /\ \A i \in (j + 1)..Len(parts) : ~Contains(parts[i], QuoteKey)
  IN Strip(SliceFrom(parts[k], FindFirst(parts[k], QuoteKey) + Len(QuoteKey)))

\* C16: for a quote template with a part matching text_identifier + '=',
\* get_quote returns exactly the value of that parameter, trimmed: neither
\* the closing braces of the template nor the text of another parameter.
C16_TextParameterValue ==
  tmpl_i \in QuoteSpans /\ HasTextParameter(CurrentTemplate) =>
    /\ EmittedQuote = TextParameterValue(CurrentTemplate)
    /\ ~Contains(EmittedQuote, <<"}", "}">>)

RECURSIVE RStripBraces(_)
RStripBraces(q) ==
  IF Len(q) > 0 /\ q[Len(q)] = "}" THEN RStripBraces(SubSeq(q, 1, Len(q) - 1)) ELSE q

\* everything of the template after its first part, without the trailing '}'
Remainder(template) ==
  IF ~Contains(template, <<"|">>) THEN <<>>
  ELSE Strip(RStripBraces(SliceFrom(Lower(template), FindFirst(template, <<"|">>) + 1)))

\* C17: for a quote template with no part matching text_identifier + '=',
\* get_quote returns everything after the first pipe-delimited part, with
\* only the trailing '}' removed and trimmed; the '}' of nested templates and
\* the pipes between parameters are kept.
C17_RemainderKept ==
  tmpl_i \in QuoteSpans /\ ~HasTextParameter(CurrentTemplate) =>
    EmittedQuote = Remainder(CurrentTemplate)

\* some '{{' of s is never balanced
Unbalanced == Len(starts) > Len(ends)

\* the text of s before the opening that is never balanced
BeforeUnbalanced == Slice(s, 0, starts[Len(starts)])

\* C28: while the function runs, the index of each of its two loops is
\* within its list, so that the next step or the return can be taken; when
\* some '{{' is never balanced it returns the rewriting of the text before
\* that opening.
C28_UnbalancedTailDropped ==
  /\ tpc = "scan" => (scan_i <= Len(s) /\ tmpl_i <= Len(ends))
  /\ (tpc = "done" /\ Unbalanced) =>
       rewritten = replace_citation_templates(BeforeUnbalanced, set_citation)

\* a text with a citation template and, after it, an opening that is never
\* balanced has been rewritten
C28_Witness ==
  /\ tpc = "done" /\ Unbalanced
  /\ CitationSpans # {}
  /\ Len(s) > starts[Len(starts)] + 2

(***************************************************************************)
(* Properties of _split_in_sents (SpecSplit).                              *)
(***************************************************************************)
\* the rule as the claim words it: the next fragment has exactly one word, or
\* its first word is entirely lowercase, or the last word of the buffer begins
\* with an uppercase letter and has at most 4 characters
ClaimedNotAnEnd(last_part, part_next) ==
  LET next_words == WordsOf(part_next)
      last_words == WordsOf(last_part)
      last_word == last_words[Len(last_words)]
  IN \/ Len(next_words) = 1
     \/ Lower(next_words[1]) = next_words[1]
     \/ /\ Len(last_words) > 0
        /\ LowerChar(last_word[1]) # last_word[1]
        /\ Len(last_word) <= 4

\* C6: at a boundary before a fragment with at least one word, the sentence
\* is not ended exactly when the claimed rule holds; 'Dr. Smith went home.'
\* is one sentence and 'He left. She stayed.' is two.
C6_BoundaryRule ==
  /\ (spc = "loop" /\ 1 <= x /\ x < Len(split) /\ Len(WordsOf(split[x + 1])) >= 1)
       => ((sentence_part # <<>>) <=> ClaimedNotAnEnd(split[x], split[x + 1]))
  /\ (spc = "done" /\ string = ExDoctor) => Len(sentences) = 1
  /\ (spc = "done" /\ string = ExTwo) => Len(sentences) = 2

\* the fragments of the sentences sents[k..], in order
RECURSIVE FragmentsOfFrom(_, _)
FragmentsOfFrom(sents, k) ==
  IF k > Len(sents) THEN <<>>
  ELSE SplitOn(sents[k], <<".">>) \o FragmentsOfFrom(sents, k + 1)

\* whether q ends with suffix
EndsWith(q, suffix) ==
  Len(suffix) <= Len(q) /\ MatchAt(q, suffix, Len(q) - Len(suffix))

\* C29: the fragments of the returned sentences are the non-empty fragments
\* of the input, each once and in input order, and the sentences joined
\* with '.' are the fragments joined with '.'; no sentence is returned
\* exactly when there is no non-empty fragment, and the last sentence ends
\* with the last fragment.
C29_NothingLost ==
  spc = "done" =>
    /\ FragmentsOfFrom(sentences, 1) = Fragments(string)
    /\ Join(sentences, <<".">>) = Join(Fragments(string), <<".">>)
    /\ (sentences = <<>>) <=> (Fragments(string) = <<>>)
    /\ sentences # <<>> =>
         EndsWith(sentences[Len(sentences)], split[Len(split)])

\* a text of three fragments or more has been split into two sentences or
\* more, one of them of more than one fragment
C29_Witness ==
  /\ spc = "done"
  /\ Len(sentences) >= 2
  /\ Len(split) > Len(sentences)

(***************************************************************************)
(* Properties of Claim.get_query (SpecQuery).                              *)
(***************************************************************************)
\* self.query.split(" ")
QueryTokens == SplitOn(claim.query, <<" ">>)

\* C1: after get_query the stored query, split on single spaces, has at most
\* 8 tokens in total, the prepended title tokens included.
C1_AtMostEightTokens == qpc = "done" => Len(QueryTokens) <= QueryLimit

\* the tokens of a list without their repetitions, in the order of their first
\* occurrences
RECURSIVE Distinct(_)
Distinct(list) ==
  IF list = <<>> THEN <<>>
  ELSE LET front == Distinct(SubSeq(list, 1, Len(list) - 1))
           last == list[Len(list)]
       IN IF \E k \in 1..Len(front) : front[k] = last THEN front
          ELSE Append(front, last)

\* the distinct lower-cased tokens of the title, as the query holds them
TitleTokens ==
  LET title_array == tokenize(claim.title)
  IN Distinct([k \in 1..Len(title_array) |-> Utf8Encode(UnicodeLower(title_array[k]))])

\* C2: after get_query the distinct lower-cased title tokens are a prefix of
\* the query in their title order, every body keyword comes after them, and
\* no token occurs twice in the query, also when a title token is a selected
\* body keyword or is repeated in the title.
C2_TitlePrefix ==
  qpc = "done" =>
    /\ Len(q_query) >= Len(TitleTokens)
    /\ SubSeq(q_query, 1, Len(TitleTokens)) = TitleTokens
    /\ \A j, k \in 1..Len(q_query) : j # k => q_query[j] # q_query[k]

\* the token is in the dictionary, with a document frequency one can divide by
Known(token) ==
  /\ Utf8Decode(token) \in DOMAIN dict_dfs
  /\ dict_dfs[Utf8Decode(token)] # 0

\* C13: __get_idfs returns a list of the length and order of the tokens; the
\* entry of a token absent from the dictionary, or whose lookup fails, is 0,
\* no error propagates, and get_query completes for a claim that has unknown
\* tokens.
C13_UnknownTokensZero ==
  LET idfs == get_idfs(q_tokens, dict_dfs, ArticleCount)
  IN /\ DOMAIN idfs = 1..Len(q_tokens)
     /\ \A k \in 1..Len(q_tokens) :
          IF Known(q_tokens[k])
          THEN idfs[k] = Log2(ArticleCount \div dict_dfs[Utf8Decode(q_tokens[k])])
          ELSE idfs[k] = 0 /\ q_tfidfs.num[k] = 0
     /\ (\E k \in 1..Len(q_tokens) : ~Known(q_tokens[k])) => qpc # "raised"

\* get_query has stored the query of a claim with a known and an unknown token
C13_Witness ==
  /\ qpc = "done"
  /\ \E j, k \in 1..Len(q_tokens) : Known(q_tokens[j]) /\ ~Known(q_tokens[k])

\* the distinct lower-cased tokens of the claim text, in the order of their
\* first appearance in it
TextOrder ==
  LET words == tokenize(claim.text)
  IN Distinct([k \in 1..Len(words) |-> Utf8Encode(UnicodeLower(words[k]))])

\* the query holds the body keywords only: the title is not yet prepended
KeywordsOrdered == qpc = "title" /\ q_i = Len(q_title)

\* C21: the selected body keywords stand in the query in the order of their
\* first appearance in the claim text, also for a claim of two or more
\* sentences; of more than 8 selected keywords the first 7 in that order are
\* kept.
C21_KeywordsInTextOrder ==
  KeywordsOrdered =>
    LET selected == SelectSeq(TextOrder, LAMBDA token : token \in q_prequery)
    IN q_query = IF Len(selected) > 8 THEN SubSeq(selected, 1, 7) ELSE selected

\* C21 for the claims of one sentence without a repeated non-ASCII token
OneSentenceInTextOrder ==
  KeywordsOrdered /\ Len(split_in_sents(claim.text)) = 1
    /\ (\A k \in 1..Len(claim.text) : claim.text[k] \notin {UpperE, LowerE}) =>
    LET selected == SelectSeq(TextOrder, LAMBDA token : token \in q_prequery)
    IN q_query = IF Len(selected) > 8 THEN SubSeq(selected, 1, 7) ELSE selected

\* get_query assigns the query of the claim once, at its end, and changes no
\* other field of the claim
GetQueryFrame ==
  [][/\ claim'.title = claim.title /\ claim'.text = claim.text
     /\ claim'.claim_type = claim.claim_type
     /\ claim'.article_text = claim.article_text
     /\ claim'.query # claim.query => (qpc = "title" /\ qpc' = "done")
     /\ qpc # "done" => claim.query = None]_vars

\* the weights __get_tokens_with_tfs has after its loop over the sentences
ProximityWeights ==
  WeighSentences([tokens |-> <<>>, token_weights |-> <<>>, token_tfs |-> <<>>],
                 split_in_sents(claim.text), 1)

\* the number of occurrences of the lower-cased token in a sentence
Occurrences(token, sentence) ==
  LET words == tokenize(sentence)
  IN Cardinality({k \in 1..Len(words) : UnicodeLower(words[k]) = token})

\* the i-th nearest sentence of the claim, empty when there are fewer
Nearest(i) ==
  LET sents == split_in_sents(claim.text)
  IN IF i <= Len(sents) THEN FromEnd(sents, i) ELSE <<>>

\* the lower-cased tokens of the three nearest sentences
NearTokens ==
  {token \in UNION {{UnicodeLower(tokenize(Nearest(i))[k]) :
                       k \in 1..Len(tokenize(Nearest(i)))} : i \in 1..3} : TRUE}

\* x + 0.36 * y + 0.216 * z, in thousandths
DocumentedWeight(token) ==
  (IF Occurrences(token, Nearest(1)) > 0 THEN WeightOne ELSE 0)
    + CoefficientPower(2) * Occurrences(token, Nearest(2))
    + CoefficientPower(3) * Occurrences(token, Nearest(3))

\* the weight of the first entry of the token, 0 when it has none
GivenWeight(token) ==
  LET given == ProximityWeights
      hits == {k \in 1..Len(given.tokens) : Utf8Decode(given.tokens[k]) = token}
  IN IF hits = {} THEN 0
     ELSE given.token_weights[CHOOSE k \in hits : \A j \in hits : k <= j]

TokensWeighed == qpc = "select"

\* C23: every token of the three nearest sentences has the weight
\* x + 0.36 * y + 0.216 * z, the second nearest sentence counted when the
\* claim has two sentences and the third when it has three
C23_ProximityWeight ==
  TokensWeighed => \A token \in NearTokens : GivenWeight(token) = DocumentedWeight(token)

\* C23 for the claims without an accented letter whose first sentence is not
\* repeated among the later ones
DistinctProximityWeight ==
  LET sents == split_in_sents(claim.text)
  IN (/\ TokensWeighed
      /\ \A k \in 1..Len(claim.text) : claim.text[k] \notin {UpperE, LowerE}
      /\ \A k \in 2..Len(sents) : sents[k] # sents[1])
       => \A token \in NearTokens : GivenWeight(token) = DocumentedWeight(token)

\* the thresholds __get_cutoff walks over
Thresholds == {10 * k : k \in 0..9}

\* delta(p) = percentile(p + 10) - percentile(p)
Delta(tfidfs, p) == percentile(tfidfs.num, p + 10) - percentile(tfidfs.num, p)

\* the highest threshold of the largest delta, 0 when no delta is positive
SteepestDrop(tfidfs) ==
  LET delta == [p \in Thresholds |-> Delta(tfidfs, p)]
  IN IF \A p \in Thresholds : delta[p] <= 0 THEN 0
     ELSE CHOOSE p \in Thresholds :
            \A r \in Thresholds :
              delta[p] > delta[r] \/ (delta[p] = delta[r] /\ p >= r)

CutoffTaken == qpc = "order" /\ q_tokens # <<>>

ExpectedOfLine(n) ==
  LET segments == LineClaims(lines, n)
      pairs == [k \in 1..(Len(segments) - 1) |-> <<n, k - 1>>]
  IN SelectSeq(pairs, LAMBDA pair : Len(segments[pair[2] + 1]) >= MinClaimLength)

\* the same for the lines 0..n-1, in document order
RECURSIVE ExpectedBefore(_)
ExpectedBefore(n) ==
  IF n = 0 THEN <<>> ELSE ExpectedBefore(n - 1) \o ExpectedOfLine(n - 1)

\* C7: from_text emits its claims in document order, exactly one for every
\* pair (line, k) with k < N whose segment has at least 15 characters, none
\* for a line without marker or for the final segment, each of type B or F.
C7_OneClaimPerSegment ==
  fpc \in {"done", "raised"} =>
    /\ emitted_at = ExpectedBefore(Len(lines))
    /\ Len(article.claims) = Len(emitted_at)
    /\ \A k \in 1..Len(article.claims) : article.claims[k].claim_type \in {"B", "F"}

\* the segments of the line at 0-based index n, and whether its k-th segment
\* (0-based, not the last) has the 15 characters a claim needs
Segments(n) == LineClaims(lines, n)

Due(n, k) == Len(Segments(n)[k + 1]) >= MinClaimLength

\* the pairs <<line, k>> of segments followed by a marker
MarkedPairs ==
  {pair \in (0..(Len(lines) - 1)) \X (0..MaxBlocks) : pair[2] <= Len(Segments(pair[1])) - 2}

EmittedFor(n, k) == \E j \in 1..Len(emitted_at) : emitted_at[j] = <<n, k>>

ClaimFor(n, k) == article.claims[CHOOSE j \in 1..Len(emitted_at) : emitted_at[j] = <<n, k>>]

\* segments k-2, k-1 and k of the line, those that exist, without separator
BackwardText(n, k) ==
  Join(SubSeq(Segments(n), IF k - 1 >= 1 THEN k - 1 ELSE 1, k + 1), <<>>)

\* the text of a claim emitted for a Backward segment is that of segments
\* k-2, k-1 and k
BackwardTextKept ==
  \A pair \in MarkedPairs :
    EmittedFor(pair[1], pair[2]) /\ ~IsForward(Segments(pair[1])[pair[2] + 1]) =>
      /\ ClaimFor(pair[1], pair[2]).claim_type = "B"
      /\ ClaimFor(pair[1], pair[2]).text = BackwardText(pair[1], pair[2])

\* C18: for a segment k (k < N, at least 15 characters) with no ':' among
\* its last 4 characters, from_text emits a claim of type 'B' whose text is
\* segments k-2, k-1 and k of the line in that order, without separator,
\* whether or not the preceding segments produced a claim themselves.
C18_BackwardClaims ==
  fpc \in {"done", "raised"} =>
    \A pair \in MarkedPairs :
      Due(pair[1], pair[2]) /\ ~IsForward(Segments(pair[1])[pair[2] + 1]) =>
        /\ EmittedFor(pair[1], pair[2])
        /\ ClaimFor(pair[1], pair[2]).claim_type = "B"
        /\ ClaimFor(pair[1], pair[2]).text = BackwardText(pair[1], pair[2])

\* the last sentence of a segment, per _split_in_sents
LastSentence(segment) == split_in_sents(segment)[Len(split_in_sents(segment))]

\* the text of a claim emitted for a Forward segment followed by a segment of
\* more than 5 characters is its last sentence and that segment
ForwardTextKept ==
  \A pair \in MarkedPairs :
    LET segments == Segments(pair[1])
        k == pair[2]
    IN EmittedFor(pair[1], k) /\ IsForward(segments[k + 1]) =>
         /\ ClaimFor(pair[1], k).claim_type = "F"
         /\ Len(segments[k + 2]) > ShortNextLength =>
              ClaimFor(pair[1], k).text = LastSentence(segments[k + 1]) \o segments[k + 2]

\* C19: for a segment k (k < N, at least 15 characters) with a ':' among its
\* last 4 characters, from_text emits a claim of type 'F'; when segment k+1
\* has more than 5 characters its text is the last sentence of segment k
\* followed by segment k+1, without separator or text of another line.
C19_ForwardClaims ==
  fpc \in {"done", "raised"} =>
    \A pair \in MarkedPairs :
      LET segments == Segments(pair[1])
          k == pair[2]
      IN Due(pair[1], k) /\ IsForward(segments[k + 1]) =>
           /\ EmittedFor(pair[1], k)
           /\ ClaimFor(pair[1], k).claim_type = "F"
           /\ Len(segments[k + 2]) > ShortNextLength =>
                ClaimFor(pair[1], k).text = LastSentence(segments[k + 1]) \o segments[k + 2]

\* the consecutive lines holding '*' from the line at 0-based index n
RECURSIVE StarRun(_)
StarRun(n) ==
  IF n >= Len(lines) THEN <<>>
  ELSE IF Contains(lines[n + 1], <<"*">>) THEN lines[n + 1] \o StarRun(n + 1)
  ELSE <<>>

\* the base sentence extended by the list that follows the line at index n,
\* by the single next line, or by nothing when there is no next line
Extended(base, n) ==
  IF n + 1 >= Len(lines) THEN base
  ELSE IF Contains(lines[n + 2], <<"*">>) THEN base \o StarRun(n + 1)
  ELSE base \o <<" ">> \o lines[n + 2]

\* C20: for a Forward segment whose following segment has at most 5
\* characters, the claim text is the base sentence extended by every
\* consecutive following line that holds '*' when the next line holds one,
\* and by the single next line otherwise; when there is no next line the
\* extraction finishes without error and the claim is still emitted.
C20_ForwardShortNext ==
  /\ fpc # "raised"
  /\ fpc = "done" =>
       \A pair \in MarkedPairs :
         LET segments == Segments(pair[1])
             k == pair[2]
         IN Due(pair[1], k) /\ IsForward(segments[k + 1])
              /\ Len(segments[k + 2]) <= ShortNextLength =>
              /\ EmittedFor(pair[1], k)
              /\ ClaimFor(pair[1], k).text = Extended(LastSentence(segments[k + 1]), pair[1])

\* C20 for the claims that are emitted: their text is as C20 says
ExtensionKept ==
  \A pair \in MarkedPairs :
    LET segments == Segments(pair[1])
        k == pair[2]
    IN EmittedFor(pair[1], k) /\ IsForward(segments[k + 1])
         /\ Len(segments[k + 2]) <= ShortNextLength =>
         ClaimFor(pair[1], k).text = Extended(LastSentence(segments[k + 1]), pair[1])

\* C27: no claim from_text has emitted holds the marker in its text.
C27_NoMarkerInClaims ==
  \A k \in 1..Len(article.claims) : ~Contains(article.claims[k].text, CNMARK)

\* C27 for the claims of type 'B'
BackwardWithoutMarker ==
  \A k \in 1..Len(article.claims) :
    article.claims[k].claim_type = "B" => ~Contains(article.claims[k].text, CNMARK)

(***************************************************************************)
(* Properties of BingResponse.__compare_site (SpecBing).                   *)
(***************************************************************************)
\* whether fetching, extracting or tokenizing the page fails
Fails(page) == ~(page.fetched /\ page.extracted /\ page.tokenized)

\* C8: when fetching a candidate, extracting its paragraphs or tokenizing
\* its text fails, __compare_site returns None and raises nothing, and the
\* candidate is absent from valid_sites.
C8_FailureIsRejection ==
  /\ bpc # "raised"
  /\ bpc = "returned" /\ Fails(CurrentPage) => response_tuple = None
  /\ \A k \in 1..Len(valid_sites) : ~Fails(Web[valid_sites[k][1]])

\* the similarity to the claim of the k-th paragraph of the page compared
SimilarityOf(k) == ParagraphSimilarity(paragraphs[k], claim_text)

\* a paragraph of the page no other paragraph is more similar than
Winning(k) ==
  \A j \in 1..Len(paragraphs) : ~SimilarityLess(SimilarityOf(k), SimilarityOf(j))

\* the paragraph itself when it has at most 1000 characters, its first 1000
\* characters otherwise
FirstThousand(paragraph) ==
  IF Len(paragraph) <= 1000 THEN paragraph ELSE SubSeq(paragraph, 1, 1000)

IsPrefix(q, paragraph) == Len(q) <= Len(paragraph) /\ SubSeq(paragraph, 1, Len(q)) = q

\* C10 as stated: every tuple returned carries the winning paragraph, cut to
\* its first 1000 characters, so every excerpt of valid_sites has at most
\* 1000 characters and is a prefix of a paragraph of the page.
C10_ExcerptOriginal ==
  /\ bpc = "returned" /\ response_tuple # None =>
        \E k \in 1..Len(paragraphs) :
          Winning(k) /\ response_tuple[2] = FirstThousand(paragraphs[k])
  /\ \A n \in 1..Len(valid_sites) :
        /\ Len(valid_sites[n][4]) <= 1000
        /\ \E k \in 1..Len(Web[valid_sites[n][1]].paragraphs) :
             IsPrefix(valid_sites[n][4], Web[valid_sites[n][1]].paragraphs[k])

\* C10, amended: the excerpt is the winning paragraph cut to its first 1000
\* characters when some paragraph has a positive similarity to the claim,
\* and empty when none has; every excerpt of valid_sites has at most 1000
\* characters and is empty or a prefix of a paragraph of the page.
C10_Excerpt ==
  /\ bpc = "returned" /\ response_tuple # None =>
        IF \E k \in 1..Len(paragraphs) : SimilarityLess(ZeroSimilarity, SimilarityOf(k))
        THEN \E k \in 1..Len(paragraphs) :
               Winning(k) /\ response_tuple[2] = FirstThousand(paragraphs[k])
        ELSE response_tuple[2] = <<>>
  /\ \A n \in 1..Len(valid_sites) :
        /\ Len(valid_sites[n][4]) <= 1000
        /\ \/ valid_sites[n][4] = <<>>
           \/ \E k \in 1..Len(Web[valid_sites[n][1]].paragraphs) :
                IsPrefix(valid_sites[n][4], Web[valid_sites[n][1]].paragraphs[k])

\* a paragraph of more than 1000 characters won and was cut
C10_Witness ==
  /\ bpc = "returned" /\ response_tuple # None
  /\ Len(similar_paragraph) > 1000
  /\ Len(response_tuple[2]) = 1000

\* the first paragraph, in page order, of the greatest similarity
FirstWinning(k) ==
  /\ Winning(k)
  /\ \A j \in 1..(k - 1) : SimilarityLess(SimilarityOf(j), SimilarityOf(k))

\* C11 as stated: for a page whose extraction succeeds, the excerpt is taken
\* from the first paragraph, in page order, whose similarity to the claim
\* equals the greatest similarity over the paragraphs of the page.
C11_FirstMaximumOriginal ==
  bpc = "returned" /\ response_tuple # None /\ Len(paragraphs) > 0 =>
    \E k \in 1..Len(paragraphs) :
      FirstWinning(k) /\ response_tuple[2] = Excerpt(paragraphs[k])

\* C11, amended: when the greatest similarity of the page is greater than 0,
\* the paragraph chosen is the first one, in page order, that reaches it, and
\* the excerpt is taken from it; a later paragraph of equal similarity never
\* replaces it.  When no paragraph has a similarity greater than 0, none is
\* chosen.
C11_FirstMaximum ==
  bpc = "returned" /\ response_tuple # None =>
    IF \E k \in 1..Len(paragraphs) : SimilarityLess(ZeroSimilarity, SimilarityOf(k))
    THEN \E k \in 1..Len(paragraphs) :
           /\ FirstWinning(k)
           /\ similar_paragraph = paragraphs[k]
           /\ max_similarity = SimilarityOf(k)
           /\ response_tuple[2] = Excerpt(paragraphs[k])
    ELSE similar_paragraph = <<>> /\ max_similarity = ZeroSimilarity

\* two different paragraphs of the page reach the greatest similarity, which
\* is greater than 0, and the tuple has been returned
C11_Witness ==
  /\ bpc = "returned" /\ response_tuple # None
  /\ \E j, k \in 1..Len(paragraphs) :
       /\ j < k /\ Winning(j) /\ Winning(k)
       /\ paragraphs[j] # paragraphs[k]
       /\ SimilarityLess(ZeroSimilarity, SimilarityOf(j))

\* the urls of the search results, in result order
ResultUrls == [k \in 1..Len(response_sites) |-> response_sites[k].url]

\* whether the urls of the tuples sites[from..] are those of some of the
\* results k, k + 1, ..., each result used at most once and in order
RECURSIVE InResultOrder(_, _, _)
InResultOrder(sites, from, k) ==
  IF from > Len(sites) THEN TRUE
  ELSE IF k > Len(response_sites) THEN FALSE
  ELSE IF sites[from][1] = response_sites[k].url /\ Web[response_sites[k].url].fetched
       THEN InResultOrder(sites, from + 1, k + 1)
       ELSE InResultOrder(sites, from, k + 1)

\* the construction of the response has ended, by return or by exception
Ended == bpc \in {"done", "raised"}

\* C26: when the construction of the response ends, urlopen has been called
\* once for every search result, in result order, and valid_sites holds at
\* most one tuple per result, in result order.
C26_EveryResultFetchedOnce ==
  Ended =>
    /\ requested = ResultUrls
    /\ InResultOrder(valid_sites, 1, 1)

\* at any time the urls requested are the first results, each once and in
\* order, and the tuples of valid_sites follow the order of the results
RequestedInOrder ==
  /\ Len(requested) <= Len(response_sites)
  /\ requested = SubSeq(ResultUrls, 1, Len(requested))
  /\ InResultOrder(valid_sites, 1, 1)
  /\ bpc = "done" => requested = ResultUrls

(***************************************************************************)
(* Properties of the run (SpecRun).                                        *)
(***************************************************************************)
\* whether the result holds the k-th claim of the a-th article of the dump
InResult(a, k) ==
  \E n \in 1..Len(result) :
    /\ result[n].article = a
    /\ \E m \in 1..Len(result[n].claims_responses) :
         result[n].claims_responses[m].claim = k

\* a claim none of whose own steps fails
Sound(a, k) ==
  /\ corpus[a].extraction = "ok"
  /\ corpus[a].claims[k].get_query = "ok"
  /\ corpus[a].claims[k].search = "ok"

\* C9: a failure while processing one claim (the extraction of its article,
\* its query, its search request, a malformed response) or one candidate
\* page never aborts the run: when the run ends, every other claim of every
\* other article is in the returned result.
C9_FailuresIsolated ==
  /\ rpc \notin {"raised", "exit"}
  /\ rpc = "done" =>
        \A a \in 1..Len(corpus) : \A k \in 1..Len(corpus[a].claims) :
          Sound(a, k) => InResult(a, k)

\* the number of times get_query has assigned the query of the k-th claim of
\* the a-th article of the dump
Assignments(a, k) ==
  Cardinality({m \in 1..Len(queried) : queried[m] = <<a, k>>})

\* _get_response_data has been entered
Searching == rpc \in {"article", "search", "sites"} \/ (rpc = "done" /\ result # <<>>)

\* C24: no claim has its query assigned twice, and from the first search on
\* every claim of every extracted article has had its query assigned
\* exactly once
C24_QueryAssignedOnce ==
  /\ \A a \in 1..Len(corpus) :
       \A k \in 1..Len(corpus[a].claims) : Assignments(a, k) <= 1
  /\ Searching =>
       \A m \in 1..Len(claim_list) :
         \A k \in 1..Len(corpus[claim_list[m]].claims) :
           Assignments(claim_list[m], k) = 1

\* the search for the second claim of the second article has been issued
C24_Witness ==
  /\ rpc = "sites" /\ art_i = 1 /\ cl_i = 1
  /\ Len(queried) = 4

(***************************************************************************)
(* Properties of the main program (SpecMain).                              *)
(***************************************************************************)
\* a required setting is missing or invalid
BadConfiguration == \E setting \in DOMAIN config : config[setting] # "ok"

\* C12: when a required setting is missing or invalid, the program ends with
\* a non-zero exit status before dictionary loading, claim extraction or any
\* search starts: no such failure is first detected after processing began.
C12_ConfigurationFatalFirst ==
  mpc # "idle" /\ BadConfiguration =>
    /\ started = {}
    /\ mpc \in {"done", "exited", "raised"} => exit_status # 0

\* the list skipsites holds what the last reading of the section gave
SkipListRead == skipsites_bound /\ mpc \in {"claim", "article", "done"}

====
